---- MODULE Spec2Model ----
(***************************************************************************)
(* A model of the package resolution and installation engine of phm:      *)
(* internal/pkg/manager.go (Manager), the package types, and the planning  *)
(* loop of the install command.                                            *)
(*                                                                         *)
(* Strings are modelled as sequences of tokens.  A token is a maximal run  *)
(* of characters of one class: a word ("php", "cli"), a run of digits      *)
(* ("8", "10"), a run of comparison characters (">="), a run of blanks     *)
(* (" "), or one of the punctuation characters ".", "-", "/", "(", ")".    *)
(* The empty string is <<>>, concatenation is \o.  Splitting, prefix       *)
(* tests, number parsing and the regular expressions of the source are     *)
(* computed on the tokens.                                                 *)
(***************************************************************************)
EXTENDS Integers, Sequences, FiniteSets, TLC

VARIABLES
    available,      \* runInstall: allAvailable, the catalog of the platform
    installed,      \* Manager.installed: name -> InstalledPackage
    packages,       \* runInstall: the requested package names
    reqIdx,         \* runInstall: position of the planning loop in packages
    pc,             \* runInstall: "loop", "resolve", "planned", "crashed"
    allToInstall,   \* runInstall: the install requests collected so far
    seenPackages,   \* runInstall: requested names already collected
    installedSlots, \* runInstall: install slots of the collected requests
    log,            \* runInstall: the errors printed, one per failed request
    pkg,            \* ResolveDependencies: the target package
    stack,          \* the call stack of the resolve closure: frames [p, i]
    resolved,       \* ResolveDependencies: the resolved set (names)
    result,         \* ResolveDependencies: the result list being built
    ret,            \* ResolveDependencies: what the call returned
    disk,           \* the file system: the paths of the files that exist
    db,             \* <dataDir>/installed: name -> content of <name>.json,
                    \* <<record>>, or <<>> for content that does not parse
    placed,         \* the paths the engine has written a file to so far
    failed,         \* some call of the engine has failed so far
    last,           \* the latest call of the engine and what it met
    prev,           \* the call before it
    ops,            \* the number of calls of the engine so far
    force,          \* runInstall: the --force flag
    caller,         \* who installs: "cli" (runInstall) or "tui" (Model.doInstall)
    toUpgrade,      \* runInstall: packagesToUpgrade, what is left of it
    instIdx,        \* the position of the install loop in its list
    outcomes,       \* what the install loop has done, one entry per iteration
    cfg,            \* Config: Offline, RepoPath, CacheDir
    index,          \* Repository.index: <<>> (nil) or <<the parsed document>>
    cacheFile,      \* the file at cfg.GetIndexPath(): <<>> (no file) or <<its bytes>>
    fetches,        \* <<the bytes of the latest successful fetch>>, <<>> before it
    pkgCache,       \* the directory of cfg.GetPackagePath: file name -> content
    repoCall,       \* the latest call of the repository and what it met
    checked,        \* the latest question put to a function and its answers
    others,         \* Manager.installed of the other running invocation
    tui             \* Model of the TUI: the step, the cursor, the commands in flight

resolverVars == <<pkg, stack, resolved, result, ret>>
commandVars == <<packages, reqIdx, pc, allToInstall, seenPackages, installedSlots, log>>
engineVars == <<disk, db, placed, failed, last, prev, ops>>
runVars == <<force, caller, toUpgrade, instIdx, outcomes>>
repoVars == <<cfg, index, cacheFile, fetches, pkgCache, repoCall>>
aloneVars == <<repoVars, checked, others, tui>>
otherVars == <<runVars, aloneVars>>
vars == <<available, installed, commandVars, resolverVars, engineVars, otherVars>>

----------------------------------------------------------------------------
(* Strings as token sequences *)

\* the runs of digits of the model, at the position of their value plus one
DigitTokens == <<"0", "1", "2", "3", "4", "5", "6", "7", "8", "9", "10">>

Digits == {DigitTokens[i] : i \in 1..Len(DigitTokens)}

\* the value of a run of digits
DigitValue(t) == (CHOOSE i \in 1..Len(DigitTokens) : DigitTokens[i] = t) - 1

OpTokens == {">=", ">", "<=", "<", "=", "==", "<>"}

HasPrefix(s, prefix) ==
    /\ Len(prefix) <= Len(s)
    /\ SubSeq(s, 1, Len(prefix)) = prefix

TrimPrefix(s, prefix) ==
    IF HasPrefix(s, prefix) THEN SubSeq(s, Len(prefix) + 1, Len(s)) ELSE s

\* strings.Split(s, "."): the parts between the dots; never empty
RECURSIVE SplitDots(_)
SplitDots(s) ==
    IF \A i \in 1..Len(s) : s[i] # "."
    THEN <<s>>
    ELSE LET k == CHOOSE i \in 1..Len(s) :
                      /\ s[i] = "."
                      /\ \A j \in 1..(i - 1) : s[j] # "."
         IN  <<SubSeq(s, 1, k - 1)>> \o SplitDots(SubSeq(s, k + 1, Len(s)))

\* strconv.Atoi: ok is FALSE where Atoi returns an error
Atoi(part) ==
    IF Len(part) = 1 /\ part[1] \in Digits
    THEN [ok |-> TRUE, v |-> DigitValue(part[1])]
    ELSE IF Len(part) = 2 /\ part[1] \in {"+", "-"} /\ part[2] \in Digits
    THEN [ok |-> TRUE,
          v  |-> IF part[1] = "-" THEN 0 - DigitValue(part[2])
                                  ELSE DigitValue(part[2])]
    ELSE [ok |-> FALSE, v |-> 0]

----------------------------------------------------------------------------
(* Versions: manager.go compareVersions, versionSatisfies *)

\* the number read for component i of the split version
VersionNum(parts, i) ==
    IF i <= Len(parts) /\ Atoi(parts[i]).ok THEN Atoi(parts[i]).v ELSE 0

RECURSIVE CompareFrom(_, _, _, _)
CompareFrom(partsA, partsB, i, maxLen) ==
    IF i > maxLen THEN 0
    ELSE IF VersionNum(partsA, i) < VersionNum(partsB, i) THEN -1
    ELSE IF VersionNum(partsA, i) > VersionNum(partsB, i) THEN 1
    ELSE CompareFrom(partsA, partsB, i + 1, maxLen)

\* the components the shorter version lacks are not compared
compareVersionsUnpadded(a, b) ==
    LET partsA == SplitDots(a)
        partsB == SplitDots(b)
        minLen == IF Len(partsB) < Len(partsA) THEN Len(partsB) ELSE Len(partsA)
    IN  CompareFrom(partsA, partsB, 1, minLen)

compareVersions(a, b) ==
    LET partsA == SplitDots(a)
        partsB == SplitDots(b)
        maxLen == IF Len(partsB) > Len(partsA) THEN Len(partsB) ELSE Len(partsA)
    IN  CompareFrom(partsA, partsB, 1, maxLen)

\* the comparison taken the wrong way round
versionSatisfiesSwapped(version, constraint, required) ==
    IF constraint = <<>> \/ required = <<>> THEN TRUE
    ELSE LET cmp == compareVersions(required, version)
         IN  CASE constraint = <<">=">> -> cmp >= 0
               [] constraint = <<">">>  -> cmp > 0
               [] constraint = <<"<=">> -> cmp <= 0
               [] constraint = <<"<">>  -> cmp < 0
               [] constraint \in {<<"=">>, <<"==">>} -> cmp = 0
               [] OTHER -> TRUE

versionSatisfies(version, constraint, required) ==
    IF constraint = <<>> \/ required = <<>> THEN TRUE
    ELSE LET cmp == compareVersions(version, required)
         IN  CASE constraint = <<">=">> -> cmp >= 0
               [] constraint = <<">">>  -> cmp > 0
               [] constraint = <<"<=">> -> cmp <= 0
               [] constraint = <<"<">>  -> cmp < 0
               [] constraint \in {<<"=">>, <<"==">>} -> cmp = 0
               [] OTHER -> TRUE

----------------------------------------------------------------------------
(* Dependencies: manager.go ParseDependency *)

\* [a-zA-Z0-9._-]: a word, a run of digits, ".", "_" or "-"
IsNameToken(t) == t \notin (OpTokens \cup {" ", "(", ")", "/"})

\* [0-9.]
IsVersionToken(t) == t \in (Digits \cup {"."})

\* the length of the longest prefix of s from position i on made of name tokens
RECURSIVE NameRun(_, _)
NameRun(s, i) ==
    IF i <= Len(s) /\ IsNameToken(s[i]) THEN 1 + NameRun(s, i + 1) ELSE 0

RECURSIVE VersionRun(_, _)
VersionRun(s, i) ==
    IF i <= Len(s) /\ IsVersionToken(s[i]) THEN 1 + VersionRun(s, i + 1) ELSE 0

\* strings.TrimSpace
TrimSpace(s) ==
    LET from == IF Len(s) > 0 /\ s[1] = " " THEN 2 ELSE 1
        to   == IF Len(s) > 0 /\ s[Len(s)] = " " THEN Len(s) - 1 ELSE Len(s)
    IN  SubSeq(s, from, to)

\* ^([a-zA-Z0-9._-]+)\s*\(([<>=]+)\s*([0-9.]+)\)$ on the trimmed string
ParseDependency(dep) ==
    LET s  == TrimSpace(dep)
        n  == NameRun(s, 1)
        \* position of "(" after optional blanks
        lp == IF n + 1 <= Len(s) /\ s[n + 1] = " " THEN n + 2 ELSE n + 1
        \* position of the first version token after optional blanks
        vs == IF lp + 2 <= Len(s) /\ s[lp + 2] = " " THEN lp + 3 ELSE lp + 2
        vn == VersionRun(s, vs)
        matches ==
            /\ n >= 1
            /\ lp <= Len(s) /\ s[lp] = "("
            /\ lp + 1 <= Len(s) /\ s[lp + 1] \in OpTokens
            /\ vn >= 1
            /\ vs + vn = Len(s) /\ s[vs + vn] = ")"
    IN  IF matches
        THEN [Name       |-> SubSeq(s, 1, n),
              Constraint |-> <<s[lp + 1]>>,
              Version    |-> SubSeq(s, vs, vs + vn - 1)]
        ELSE [Name |-> dep, Constraint |-> <<>>, Version |-> <<>>]

----------------------------------------------------------------------------
(* Package names: ParsePackageName, GetInstallSlot, GetCanonicalName *)

\* the token of a line break, which "." of a regular expression does not
\* match and before which "$" does not match
LineBreak == "\n"

\* ^php(\d+)\.(\d+)\.(\d+)-(.+)$
MatchesPatchVersion(name) ==
    /\ Len(name) >= 8
    /\ name[1] = "php" /\ name[2] \in Digits /\ name[3] = "."
    /\ name[4] \in Digits /\ name[5] = "." /\ name[6] \in Digits
    /\ name[7] = "-"
    /\ \A i \in 8..Len(name) : name[i] # LineBreak

\* ^php(\d+)\.(\d+)-(.+)$
MatchesMinorVersion(name) ==
    /\ Len(name) >= 6
    /\ name[1] = "php" /\ name[2] \in Digits /\ name[3] = "."
    /\ name[4] \in Digits /\ name[5] = "-"
    /\ \A i \in 6..Len(name) : name[i] # LineBreak

\* the VersionInfo of a name, as a sequence of none or one
ParsePackageName(name) ==
    IF MatchesPatchVersion(name)
    THEN <<[MinorVersion |-> SubSeq(name, 2, 4),
            PatchVersion |-> SubSeq(name, 2, 6),
            IsPinned     |-> TRUE,
            PackageType  |-> SubSeq(name, 8, Len(name))]>>
    ELSE IF MatchesMinorVersion(name)
    THEN <<[MinorVersion |-> SubSeq(name, 2, 4),
            PatchVersion |-> <<>>,
            IsPinned     |-> FALSE,
            PackageType  |-> SubSeq(name, 6, Len(name))]>>
    ELSE <<>>

GetInstallSlot(v) == IF v.IsPinned THEN v.PatchVersion ELSE v.MinorVersion

\* the name is built from the install slot
GetCanonicalNameOfSlot(v) == <<"php">> \o GetInstallSlot(v) \o <<"-">> \o v.PackageType

GetCanonicalName(v) == <<"php">> \o v.MinorVersion \o <<"-">> \o v.PackageType

\* ^php(\d+\.\d+\.\d+) and then ^php(\d+\.\d+), unanchored at the end
extractPHPVersion(name) ==
    IF /\ Len(name) >= 6
       /\ name[1] = "php" /\ name[2] \in Digits /\ name[3] = "."
       /\ name[4] \in Digits /\ name[5] = "." /\ name[6] \in Digits
    THEN SubSeq(name, 2, 6)
    ELSE IF /\ Len(name) >= 4
            /\ name[1] = "php" /\ name[2] \in Digits /\ name[3] = "."
            /\ name[4] \in Digits
    THEN SubSeq(name, 2, 4)
    ELSE <<>>

----------------------------------------------------------------------------
(* Catalog and ledger lookups *)

\* a catalog entry; the fields of Package the engine reads
Package(name, version, depends) ==
    [Name |-> name, Version |-> version, Depends |-> depends]

\* a ledger record: the Package plus the installation metadata
InstalledPackage(p, name, files, slot, pinned) ==
    [Name |-> name, Version |-> p.Version, Depends |-> p.Depends,
     InstalledFiles |-> files, InstallSlot |-> slot, Pinned |-> pinned]

IsInstalled(name) == name \in DOMAIN installed

\* the positions of the catalog entries of a name
EntriesNamed(list, name) == {i \in 1..Len(list) : list[i].Name = name}

Min(S) == CHOOSE i \in S : \A j \in S : i <= j

\* the loop "for i := range available { if available[i].Name == name ... break }":
\* the first entry of the name, as a sequence of none or one
FirstNamed(list, name) ==
    IF EntriesNamed(list, name) = {} THEN <<>>
    ELSE <<list[Min(EntriesNamed(list, name))]>>

\* Repository.GetPackage: the scan keeps the entry of the name whose version
\* compares greater than the one kept so far; latest = 0 stands for nil
RECURSIVE LatestFrom(_, _, _, _)
LatestFrom(list, name, i, latest) ==
    IF i > Len(list) THEN latest
    ELSE IF /\ list[i].Name = name
            /\ \/ latest = 0
               \/ compareVersions(list[i].Version, list[latest].Version) > 0
    THEN LatestFrom(list, name, i + 1, i)
    ELSE LatestFrom(list, name, i + 1, latest)

\* as a sequence of none or one
GetPackage(name) ==
    LET latest == LatestFrom(available, name, 1, 0)
    IN  IF latest = 0 THEN <<>> ELSE <<available[latest]>>

----------------------------------------------------------------------------
(* The install command: parseInstallRequest and the planning loop of runInstall *)

installRequest(requested, canonical, slot, pinned, p) ==
    [RequestedName |-> requested, CanonicalName |-> canonical,
     InstallSlot |-> slot, IsPinned |-> pinned, Package |-> p]

\* the version of the catalog entry is not compared with the one requested
parseInstallRequestAnyVersion(name, list) ==
    LET versionInfo == ParsePackageName(name)
    IN  IF versionInfo = <<>>
        THEN IF FirstNamed(list, name) = <<>> THEN <<>>
             ELSE <<installRequest(name, name, <<>>, FALSE, FirstNamed(list, name)[1])>>
        ELSE LET v == versionInfo[1]
                 canonicalName == GetCanonicalName(v)
                 foundPkg == FirstNamed(list, canonicalName)
             IN  IF foundPkg = <<>> THEN <<>>
                 ELSE <<installRequest(name, canonicalName, GetInstallSlot(v),
                                       v.IsPinned, foundPkg[1])>>

\* as a sequence of none or one
parseInstallRequest(name, list) ==
    LET versionInfo == ParsePackageName(name)
    IN  IF versionInfo = <<>>
        THEN IF FirstNamed(list, name) = <<>> THEN <<>>
             ELSE <<installRequest(name, name, <<>>, FALSE, FirstNamed(list, name)[1])>>
        ELSE LET v == versionInfo[1]
                 canonicalName == GetCanonicalName(v)
                 foundPkg == FirstNamed(list, canonicalName)
             IN  IF foundPkg = <<>> THEN <<>>
                 ELSE IF v.IsPinned /\ foundPkg[1].Version # v.PatchVersion THEN <<>>
                 ELSE <<installRequest(name, canonicalName, GetInstallSlot(v),
                                       v.IsPinned, foundPkg[1])>>

\* runInstall, the request of a name: parseInstallRequest, and the direct
\* lookup when it finds nothing; as a sequence of none or one
RequestFor(name) ==
    IF parseInstallRequest(name, available) # <<>>
    THEN parseInstallRequest(name, available)
    ELSE IF GetPackage(name) = <<>> THEN <<>>
    ELSE <<installRequest(name, name, extractPHPVersion(name), FALSE, GetPackage(name)[1])>>

\* runInstall, "for _, p := range toInstall": the install request of plan entry p
\* of request req
PlannedRequest(req, p) ==
    LET vinfo == ParsePackageName(p.Name)
        depReqName ==
            IF p.Name # req.CanonicalName /\ req.IsPinned
            THEN IF vinfo # <<>>
                 THEN <<"php">> \o req.InstallSlot \o <<"-">> \o vinfo[1].PackageType
                 ELSE p.Name
            ELSE IF p.Name = req.CanonicalName THEN req.RequestedName
            ELSE p.Name
    IN  installRequest(depReqName, p.Name, req.InstallSlot, req.IsPinned, p)

\* the loop over toInstall from position i on: c is [all, seen, slots]
RECURSIVE Collect(_, _, _, _)
Collect(req, toInstall, i, c) ==
    IF i > Len(toInstall) THEN c
    ELSE LET r == PlannedRequest(req, toInstall[i])
         IN  IF r.RequestedName \in c.seen
             THEN Collect(req, toInstall, i + 1, c)
             ELSE Collect(req, toInstall, i + 1,
                          [all   |-> Append(c.all, r),
                           seen  |-> c.seen \cup {r.RequestedName},
                           slots |-> IF r.InstallSlot # <<>>
                                     THEN c.slots \cup {r.InstallSlot}
                                     ELSE c.slots])

----------------------------------------------------------------------------
(* Manager.ResolveDependencies, one step of the resolve closure at a time *)

\* the recursion depth at which the walk is given up as unbounded
MaxDepth == 5

NoReturn == [state |-> "none", plan |-> <<>>, name |-> <<>>]

Frame(p) == [p |-> p, i |-> 1]

Top == stack[Len(stack)]

\* the dependency the loop of the top frame is at
CurDep == ParseDependency(Top.p.Depends[Top.i])

\* "already installed with correct version"
Satisfied(dep) ==
    /\ IsInstalled(dep.Name)
    /\ versionSatisfies(installed[dep.Name].Version, dep.Constraint, dep.Version)

Resolving == pc = "resolve" /\ ret.state = "none" /\ stack # <<>>

AtDependency == Resolving /\ Top.i <= Len(Top.p.Depends)

\* the loop of the top frame goes on to its next dependency
Continue(s) == [s EXCEPT ![Len(s)].i = @ + 1]

\* the top frame returns nil to its caller
Return(s) == IF Len(s) = 1 THEN <<>> ELSE Continue(SubSeq(s, 1, Len(s) - 1))

\* manager.go:173-177, the dependency is installed and satisfied: continue
DependencySatisfied ==
    /\ AtDependency
    /\ Satisfied(CurDep)
    /\ stack' = Continue(stack)
    /\ UNCHANGED <<otherVars, engineVars, available, installed, commandVars, pkg, resolved, result, ret>>

\* a missing dependency passed over instead of reported
DependencyNotFoundIgnored ==
    /\ AtDependency
    /\ ~Satisfied(CurDep)
    /\ FirstNamed(available, CurDep.Name) = <<>>
    /\ stack' = Continue(stack)
    /\ UNCHANGED <<otherVars, engineVars, available, installed, commandVars, pkg, resolved, result, ret>>

\* manager.go:188-190, no catalog entry of the name: every frame returns the error
DependencyNotFound ==
    /\ AtDependency
    /\ ~Satisfied(CurDep)
    /\ FirstNamed(available, CurDep.Name) = <<>>
    /\ stack' = <<>>
    /\ ret' = [state |-> "err", plan |-> <<>>, name |-> CurDep.Name]
    /\ UNCHANGED <<otherVars, engineVars, available, installed, commandVars, pkg, resolved, result>>

\* manager.go:193 and 165-167, resolve(depPkg) returns at once: already resolved
DependencyResolved ==
    /\ AtDependency
    /\ ~Satisfied(CurDep)
    /\ FirstNamed(available, CurDep.Name) # <<>>
    /\ CurDep.Name \in resolved
    /\ stack' = Continue(stack)
    /\ UNCHANGED <<otherVars, engineVars, available, installed, commandVars, pkg, resolved, result, ret>>

\* the walk with a check for packages in progress: a dependency already on
\* the call stack is not walked again
DependencyDescendOnce ==
    /\ AtDependency
    /\ ~Satisfied(CurDep)
    /\ FirstNamed(available, CurDep.Name) # <<>>
    /\ CurDep.Name \notin resolved
    /\ Len(stack) < MaxDepth
    /\ stack' = IF \E k \in 1..Len(stack) : stack[k].p.Name = CurDep.Name
                THEN Continue(stack)
                ELSE Append(stack, Frame(FirstNamed(available, CurDep.Name)[1]))
    /\ UNCHANGED <<otherVars, engineVars, available, installed, commandVars, pkg, resolved, result, ret>>

\* manager.go:193, resolve(depPkg) walks the dependencies of depPkg
DependencyDescend ==
    /\ AtDependency
    /\ ~Satisfied(CurDep)
    /\ FirstNamed(available, CurDep.Name) # <<>>
    /\ CurDep.Name \notin resolved
    /\ Len(stack) < MaxDepth
    /\ stack' = Append(stack, Frame(FirstNamed(available, CurDep.Name)[1]))
    /\ UNCHANGED <<otherVars, engineVars, available, installed, commandVars, pkg, resolved, result, ret>>

\* the same call at depth MaxDepth: the model stops following the recursion;
\* the call has not returned
DependencyOverflow ==
    /\ AtDependency
    /\ ~Satisfied(CurDep)
    /\ FirstNamed(available, CurDep.Name) # <<>>
    /\ CurDep.Name \notin resolved
    /\ Len(stack) = MaxDepth
    /\ pc' = "crashed"
    /\ UNCHANGED <<otherVars, engineVars, available, installed, packages, reqIdx, allToInstall,
                   seenPackages, installedSlots, log, resolverVars>>

\* the package appended without being marked resolved
ResolveAppendUnmarked ==
    /\ Resolving
    /\ Top.i > Len(Top.p.Depends)
    /\ resolved' = resolved
    /\ result' = Append(result, Top.p)
    /\ stack' = Return(stack)
    /\ ret' = IF Len(stack) = 1
              THEN [state |-> "ok", plan |-> result', name |-> <<>>]
              ELSE ret
    /\ UNCHANGED <<otherVars, engineVars, available, installed, commandVars, pkg>>

\* manager.go:198-200, and 203-207 when the outermost call returns
ResolveAppend ==
    /\ Resolving
    /\ Top.i > Len(Top.p.Depends)
    /\ resolved' = resolved \cup {Top.p.Name}
    /\ result' = Append(result, Top.p)
    /\ stack' = Return(stack)
    /\ ret' = IF Len(stack) = 1
              THEN [state |-> "ok", plan |-> result', name |-> <<>>]
              ELSE ret
    /\ UNCHANGED <<otherVars, engineVars, available, installed, commandVars, pkg>>

ResolveStep ==
    \/ DependencySatisfied
    \/ DependencyNotFound
    \/ DependencyResolved
    \/ DependencyDescend
    \/ DependencyOverflow
    \/ ResolveAppend

----------------------------------------------------------------------------
(* runInstall, the planning loop (part_000:326-383) *)

AtRequest == pc = "loop" /\ reqIdx <= Len(packages)

\* part_000:329-335, "Package not found": continue
RequestNotFound ==
    /\ AtRequest
    /\ RequestFor(packages[reqIdx]) = <<>>
    /\ log' = Append(log, [error |-> "Package not found", name |-> packages[reqIdx]])
    /\ reqIdx' = reqIdx + 1
    /\ UNCHANGED <<otherVars, engineVars, available, installed, packages, pc, allToInstall,
                   seenPackages, installedSlots, resolverVars>>

\* part_000:346, the call of ResolveDependencies(&req.Package, allAvailable)
RequestResolve ==
    /\ AtRequest
    /\ RequestFor(packages[reqIdx]) # <<>>
    /\ pkg' = RequestFor(packages[reqIdx])[1].Package
    /\ stack' = <<Frame(pkg')>>
    /\ resolved' = {}
    /\ result' = <<>>
    /\ ret' = NoReturn
    /\ pc' = "resolve"
    /\ UNCHANGED <<otherVars, engineVars, available, installed, packages, reqIdx, allToInstall,
                   seenPackages, installedSlots, log>>

\* part_000:347-350, "Failed to resolve dependencies": continue
ResolveFailed ==
    /\ pc = "resolve"
    /\ caller = "cli"
    /\ ret.state = "err"
    /\ log' = Append(log, [error |-> "dependency not found", name |-> ret.name])
    /\ reqIdx' = reqIdx + 1
    /\ pc' = "loop"
    /\ UNCHANGED <<otherVars, engineVars, available, installed, packages, allToInstall,
                   seenPackages, installedSlots, resolverVars>>

\* part_000:352-383, the plan is added to the install list
ResolvePlanned ==
    /\ pc = "resolve"
    /\ caller = "cli"
    /\ ret.state = "ok"
    /\ LET c == Collect(RequestFor(packages[reqIdx])[1], ret.plan, 1,
                        [all |-> allToInstall, seen |-> seenPackages,
                         slots |-> installedSlots])
       IN  /\ allToInstall' = c.all
           /\ seenPackages' = c.seen
           /\ installedSlots' = c.slots
    /\ reqIdx' = reqIdx + 1
    /\ pc' = "loop"
    /\ UNCHANGED <<otherVars, engineVars, available, installed, packages, log, resolverVars>>

\* the loop over packages ends
PlanningDone ==
    /\ pc = "loop"
    /\ reqIdx > Len(packages)
    /\ pc' = "planned"
    /\ UNCHANGED <<otherVars, engineVars, available, installed, packages, reqIdx, allToInstall,
                   seenPackages, installedSlots, log, resolverVars>>

----------------------------------------------------------------------------
(* Catalogs, ledgers and requests of the planning specification *)

\* the most dependency strings a catalog carries in all
MaxEdges == 3

PhpName(suffix) == <<"php", "8", ".", "5", "-", suffix>>

Common == PhpName("common")
Cli == PhpName("cli")
Redis == PhpName("redis")

V(major, minor) == <<major, ".", minor>>

\* "name (op version)"
Constrained(name, op, version) == name \o <<" ", "(", op, " ">> \o version \o <<")">>

\* the dependency strings naming a package
DepStrings(name) ==
    IF name = Common
    THEN {Common, Constrained(Common, ">=", V("1", "0")),
                  Constrained(Common, ">=", V("3", "0"))}
    ELSE IF name = Cli
    THEN {Constrained(Cli, "<", V("3", "0")), Constrained(Cli, "<=", V("1", "0")),
          Constrained(Cli, "=", V("2", "0"))}
    ELSE {Redis, Constrained(Redis, ">", V("1", "0")),
                 Constrained(Redis, "==", V("3", "0"))}

\* the dependency strings an entry may carry: on the other packages
DepsOf(name) == UNION {DepStrings(n) : n \in {Common, Cli, Redis} \ {name}}

\* the dependency lists of the three entries, edges strings in all at most
DependsTriples(edges) ==
    UNION {[1..l[1] -> DepsOf(Common)] \X [1..l[2] -> DepsOf(Cli)]
               \X [1..l[3] -> DepsOf(Redis)] :
           l \in {m \in (0..edges) \X (0..edges) \X (0..edges) :
                      m[1] + m[2] + m[3] <= edges}}

\* the catalogs: the three packages, or the first two and a second, newer
\* entry of the first (a catalog may list several revisions of a name)
Catalogs(edges) ==
    {<<Package(Common, V("1", "0"), d[1]), Package(Cli, V("2", "1"), d[2]),
       Package(Redis, V("3", "0"), d[3])>> : d \in DependsTriples(edges)}
    \cup
    {<<Package(Common, V("1", "0"), d[1]), Package(Cli, V("2", "1"), d[2]),
       Package(Common, V("3", "0"), <<>>)>> :
        d \in {t \in DependsTriples(edges) : t[3] = <<>>}}

\* the ledger with the packages S installed at 2.0 in the tracked slot
Ledger(S) ==
    [n \in S |-> InstalledPackage(Package(n, V("2", "0"), <<>>), n, <<>>,
                                  V("8", "5"), FALSE)]

\* InstallOptions: the options of an installation
InstallOptions(slot, pinned, custom) ==
    [InstallSlot |-> slot, Pinned |-> pinned, CustomName |-> custom]

\* no call of the engine yet
NoCall ==
    [op |-> "none", ok |-> TRUE, name |-> <<>>, archive |-> 0, opts |-> 0,
     step |-> "none", writes |-> <<>>, files |-> <<>>, undeletable |-> {},
     existed |-> {}, recordBefore |-> <<>>, fileBefore |-> <<>>, unlinked |-> TRUE]

\* what is kept of the call before the latest
Summary(call) ==
    [op |-> call.op, ok |-> call.ok, name |-> call.name, files |-> call.files,
     existed |-> call.existed]

\* NewManager on a host where nothing was installed
InitEngine ==
    /\ disk = {}
    /\ db = <<>>
    /\ placed = {}
    /\ failed = FALSE
    /\ last = NoCall
    /\ prev = Summary(NoCall)
    /\ ops = 0

\* no call of the repository yet
NoRepoCall == [op |-> "none"]

\* filepath.Join(dir, name): an empty element is left out
Join(dir, name) == IF dir = <<>> THEN name ELSE dir \o <<"/">> \o name

HomeDir == <<"/", "home", "/", "dev">>

\* config.New: Offline false, RepoPath "", CacheDir <home>/.cache/phm
DefaultConfig ==
    [Offline |-> FALSE, RepoPath |-> <<>>,
     CacheDir |-> Join(Join(HomeDir, <<".cache">>), <<"phm">>)]

\* repo.New on a host with an empty cache directory
InitRepo ==
    /\ cfg = DefaultConfig
    /\ index = <<>>
    /\ cacheFile = <<>>
    /\ fetches = <<>>
    /\ pkgCache = <<>>
    /\ repoCall = NoRepoCall

\* one invocation, which has not asked for upgrades
\* the TUI is not running
NoTui == <<>>

InitAlone ==
    /\ InitRepo
    /\ checked = <<>>
    /\ others = <<>>
    /\ tui = NoTui

\* runInstall without --force, before its install loop
InitRun ==
    /\ force = FALSE
    /\ caller = "cli"
    /\ toUpgrade = {}
    /\ instIdx = 1
    /\ outcomes = <<>>

InitCommand(catalogs, ledgers, requests) ==
    /\ InitEngine
    /\ InitRun
    /\ InitAlone
    /\ available \in catalogs
    /\ installed \in ledgers
    /\ packages \in requests
    /\ reqIdx = 1
    /\ pc = "loop"
    /\ allToInstall = <<>>
    /\ seenPackages = {}
    /\ installedSlots = {}
    /\ log = <<>>
    /\ pkg = Package(<<>>, <<>>, <<>>)
    /\ stack = <<>>
    /\ resolved = {}
    /\ result = <<>>
    /\ ret = NoReturn

\* one requested package, any ledger
InitResolve ==
    InitCommand(Catalogs(MaxEdges),
                {Ledger(S) : S \in SUBSET {Common, Cli, Redis}},
                {<<n>> : n \in {Common, Cli, Redis}})

\* the most dependency strings of a catalog where two packages are requested
MaxPlanEdges == 2

\* two requested packages
InitPlan ==
    InitCommand(Catalogs(MaxPlanEdges),
                {Ledger({}), Ledger({Common})},
                {<<m, n>> : m, n \in {Common, Cli, Redis}})

NextResolve ==
    \/ RequestNotFound
    \/ RequestResolve
    \/ ResolveStep
    \/ ResolveFailed
    \/ ResolvePlanned
    \/ PlanningDone

SpecResolve == InitResolve /\ [][NextResolve]_vars

SpecPlan == InitPlan /\ [][NextResolve]_vars

----------------------------------------------------------------------------
(* Manager.InstallWithOptions, Manager.Remove and Manager.LoadInstalled *)

\* the most calls of the engine in a run
MaxOps == 3

Range(s) == {s[i] : i \in 1..Len(s)}

\* m[k] = v
Put(m, k, v) == [x \in DOMAIN m \cup {k} |-> IF x = k THEN v ELSE m[x]]

\* a delete that leaves the map as it is
DropNothing(m, k) == m

\* delete(m, k)
Drop(m, k) == [x \in DOMAIN m \ {k} |-> m[x]]

\* as a sequence of none or one
GetInstalled(name) == IF IsInstalled(name) THEN <<installed[name]>> ELSE <<>>

\* header.Name of the manifest entry
ManifestName == <<"pkginfo", ".", "json">>

FilesPrefix == <<"files", "/">>

\* "/opt/php/" + slot + "/"
SlotDir(slot) == <<"/", "opt", "/", "php", "/">> \o slot \o <<"/">>

\* manager.go:325-327, the source slot after a manifest of the version is read
SourceSlot(version, sourceSlot) ==
    LET parts == SplitDots(version)
    IN  IF Len(parts) >= 2 THEN parts[1] \o <<".">> \o parts[2] ELSE sourceSlot

\* manager.go:331-346, the destination of a file entry, the source slot being
\* what the entries read so far have set
DestPath(name, opts, sourceSlot) ==
    LET relPath == TrimPrefix(name, FilesPrefix)
        destPath == <<"/">> \o relPath
    IN  IF /\ opts.InstallSlot # <<>>
           /\ sourceSlot # <<>>
           /\ opts.InstallSlot # sourceSlot
           /\ HasPrefix(destPath, SlotDir(sourceSlot))
        THEN SlotDir(opts.InstallSlot) \o TrimPrefix(destPath, SlotDir(sourceSlot))
        ELSE destPath

\* the local variables of InstallWithOptions before the first entry is read
Extraction(files) ==
    [pkgInfo |-> Package(<<>>, <<>>, <<>>), sourceSlot |-> <<>>,
     installedFiles |-> <<>>, disk |-> files, writes |-> <<>>, err |-> FALSE]

\* manager.go:306-390, the loop over the entries of the archive from entry i.
\* failAt is the entry at which tr.Next, io.ReadAll or the writing of the file
\* fails (none when 0); a manifest that does not parse fails by itself.
RECURSIVE Extract(_, _, _, _, _)
Extract(archive, opts, failAt, i, st) ==
    IF i = failAt THEN [st EXCEPT !.err = TRUE]
    ELSE IF i > Len(archive) THEN st
    ELSE LET header == archive[i]
             destPath == DestPath(header.Name, opts, st.sourceSlot)
         IN  IF header.Name = ManifestName
             THEN IF header.Info = <<>>
                  THEN [st EXCEPT !.err = TRUE]
                  ELSE Extract(archive, opts, failAt, i + 1,
                               [st EXCEPT !.pkgInfo = header.Info[1],
                                          !.sourceSlot =
                                              SourceSlot(header.Info[1].Version, @)])
             ELSE IF \/ ~HasPrefix(header.Name, FilesPrefix)
                     \/ TrimPrefix(header.Name, FilesPrefix) = <<>>
                     \/ header.Typeflag = "dir"
             THEN Extract(archive, opts, failAt, i + 1, st)
             ELSE Extract(archive, opts, failAt, i + 1,
                          [st EXCEPT !.disk = @ \cup {destPath},
                                     !.writes = Append(@, destPath),
                                     !.installedFiles = Append(@, destPath)])

\* the record keyed by the name of the manifest, whatever the options
InstallNameOfManifest(opts, pkgInfo) == pkgInfo.Name

\* manager.go:398-402, the name of the record
InstallName(opts, pkgInfo) ==
    IF opts.CustomName # <<>> THEN opts.CustomName ELSE pkgInfo.Name

\* the slot of the archive recorded, whatever the options
InstallSlotOfSource(opts, sourceSlot) == sourceSlot

\* manager.go:392-396, the install slot of the record
InstallSlotOf(opts, sourceSlot) ==
    IF opts.InstallSlot # <<>> THEN opts.InstallSlot ELSE sourceSlot

\* the record entered into the map before it is saved
LedgerBeforeSave(m, saved, name, rec) == Put(m, name, rec)

\* manager.go:415-420, m.installed after the call: the record is entered only
\* when saveInstalled has returned nil
LedgerAfter(m, saved, name, rec) == IF saved THEN Put(m, name, rec) ELSE m

\* manager.go:424-436, the record files after saveInstalled: written, left
\* alone (the directory or the file cannot be opened), or truncated (the file
\* was opened and the write failed)
SaveOutcomes == {"ok", "unopened", "truncated"}

RecordsAfter(files, save, name, rec) ==
    CASE save = "ok" -> Put(files, name, <<rec>>)
      [] save = "unopened" -> files
      [] save = "truncated" -> Put(files, name, <<>>)

\* a removal that leaves the first recorded file where it is
RemoveAllButFirst(files, list, undeletable) ==
    files \ (Range(list) \ ({list[i] : i \in {1} \cap DOMAIN list} \cup undeletable))

\* manager.go:445-450, the file system after the loop over InstalledFiles;
\* undeletable are the files neither os.Remove nor "sudo rm -f" deleted
RemoveFiles(files, list, undeletable) == files \ (Range(list) \ undeletable)

\* the archives, options and names of the installation specification

PinnedCli == <<"php", "8", ".", "5", ".", "1", "-", "cli">>

PatchVersion(patch) == <<"8", ".", "5", ".", patch>>

\* entries of an archive: the header and, for a manifest, what it parses to
ManifestEntry(p) == [Name |-> ManifestName, Typeflag |-> "reg", Info |-> <<p>>]
BrokenManifestEntry == [Name |-> ManifestName, Typeflag |-> "reg", Info |-> <<>>]
FileEntry(relPath) == [Name |-> FilesPrefix \o relPath, Typeflag |-> "reg", Info |-> <<>>]
DirEntry(relPath) == [Name |-> FilesPrefix \o relPath, Typeflag |-> "dir", Info |-> <<>>]
OtherEntry == [Name |-> <<"README">>, Typeflag |-> "reg", Info |-> <<>>]

InSlot(rest) == <<"opt", "/", "php", "/", "8", ".", "5", "/">> \o rest
BinDir == InSlot(<<"bin", "/">>)
BinPhp == InSlot(<<"bin", "/", "php">>)
PhpIni == InSlot(<<"etc", "/", "php", ".", "ini">>)
ManPage == <<"usr", "/", "local", "/", "share", "/", "php", ".", "1">>

Archives ==
    <<<<ManifestEntry(Package(Cli, PatchVersion("0"), <<>>)), DirEntry(<<>>),
       DirEntry(BinDir), FileEntry(BinPhp), FileEntry(PhpIni)>>,
     <<ManifestEntry(Package(Cli, PatchVersion("1"), <<>>)), FileEntry(BinPhp)>>,
     <<FileEntry(BinPhp), ManifestEntry(Package(Cli, PatchVersion("0"), <<>>)),
       FileEntry(PhpIni)>>,
     <<ManifestEntry(Package(Common, PatchVersion("0"), <<>>)), FileEntry(PhpIni),
       FileEntry(ManPage)>>,
     <<FileEntry(ManPage), BrokenManifestEntry, FileEntry(BinPhp)>>,
     <<OtherEntry, FileEntry(ManPage)>>>>

\* what the callers pass: part_000:488-492, and Manager.Install
Options ==
    <<InstallOptions(<<>>, FALSE, <<>>),
      InstallOptions(V("8", "5"), FALSE, Cli),
      InstallOptions(PatchVersion("1"), TRUE, PinnedCli)>>

RemovedNames == {Cli, Common, PinnedCli}

\* the package of the manifest of an archive; the zero Package when no
\* manifest of the archive parses
ArchivePackage(archive) ==
    LET manifests == {i \in DOMAIN archive :
                         archive[i].Name = ManifestName /\ archive[i].Info # <<>>}
    IN  IF manifests = {} THEN Package(<<>>, <<>>, <<>>)
        ELSE archive[CHOOSE i \in manifests : \A j \in manifests : j <= i].Info[1]

\* the record file of a name, as a sequence of none or one content
RecordFile(name) == IF name \in DOMAIN db THEN <<db[name]>> ELSE <<>>

\* a call met the record of the name and the record file of the name, each
\* as a sequence of none or one
Call(op, ok, name) ==
    [NoCall EXCEPT !.op = op, !.ok = ok, !.name = name,
                   !.recordBefore = IF name \in DOMAIN installed
                                    THEN <<installed[name]>> ELSE <<>>,
                   !.fileBefore = RecordFile(name)]

\* Manager.InstallWithOptions(pkgPath, opts), manager.go:286-421, on the
\* engine: the archive at pkgPath and the options; a and o are their
\* positions in Archives and Options, 0 when they are not taken from there
Installing(archive, opts, failAt, save, a, o) ==
    LET st == Extract(archive, opts, failAt, 1, Extraction(disk))
        pkgName == InstallName(opts, st.pkgInfo)
        rec == InstalledPackage(st.pkgInfo, pkgName, st.installedFiles,
                                InstallSlotOf(opts, st.sourceSlot), opts.Pinned)
        saved == ~st.err /\ save = "ok"
    IN  /\ st.err => save = "ok"
        /\ disk' = st.disk
        /\ placed' = placed \cup Range(st.writes)
        /\ db' = IF st.err THEN db ELSE RecordsAfter(db, save, pkgName, rec)
        /\ installed' = LedgerAfter(installed, saved, pkgName, rec)
        /\ failed' = (failed \/ ~saved)
        /\ last' = [Call("install", saved,
                          InstallName(opts, ArchivePackage(archive))) EXCEPT
                        !.archive = a, !.opts = o,
                        !.step = IF st.err THEN "extract"
                                 ELSE IF saved THEN "none" ELSE "save",
                        !.writes = st.writes, !.files = st.installedFiles,
                        !.existed = Range(st.writes) \cap disk]
        /\ prev' = Summary(last)
        /\ ops' = ops + 1

\* a call of InstallWithOptions with one of the archives and of the options
InstallWithOptions(a, o, failAt, save) ==
    /\ ops < MaxOps
    /\ Installing(Archives[a], Options[o], failAt, save, a, o)
    /\ UNCHANGED <<available, commandVars, resolverVars, otherVars>>

\* manager.go:453-454, the record files after os.Remove(dbFile), whose result
\* is discarded: unlinked is whether the file was deleted
RecordsAfterRemove(files, name, unlinked) ==
    IF unlinked THEN Drop(files, name) ELSE files

\* Manager.Remove(name), manager.go:439-458, of an installed package, on the
\* engine
Removing(name) ==
    /\ IsInstalled(name)
    /\ \E undeletable \in SUBSET (Range(installed[name].InstalledFiles) \cap disk),
          unlinked \in BOOLEAN :
        /\ name \notin DOMAIN db => unlinked
        /\ disk' = RemoveFiles(disk, installed[name].InstalledFiles, undeletable)
        /\ db' = RecordsAfterRemove(db, name, unlinked)
        /\ installed' = Drop(installed, name)
        /\ failed' = (failed \/ undeletable # {} \/ ~unlinked)
        /\ last' = [Call("remove", TRUE, name) EXCEPT
                    !.files = installed[name].InstalledFiles,
                    !.existed = Range(installed[name].InstalledFiles) \cap disk,
                    !.undeletable = undeletable,
                    !.unlinked = unlinked]
        /\ prev' = Summary(last)
        /\ ops' = ops + 1
        /\ placed' = placed

\* a call of Remove for an installed package
Remove(name) ==
    /\ ops < MaxOps
    /\ Removing(name)
    /\ UNCHANGED <<available, commandVars, resolverVars, otherVars>>

\* manager.go:440-443, "package not installed"
RemoveNotInstalled(name) ==
    /\ ops < MaxOps
    /\ ~IsInstalled(name)
    /\ failed' = TRUE
    /\ last' = Call("remove", FALSE, name)
    /\ prev' = Summary(last)
    /\ ops' = ops + 1
    /\ UNCHANGED <<available, installed, commandVars, resolverVars, otherVars,
                   disk, db, placed>>

\* Package.PHPVersion of a record; the field is left out of the record
\* file when it is empty (json omitempty)
PHPVersionOf(rec) ==
    IF "PHPVersion" \in DOMAIN rec THEN rec.PHPVersion ELSE <<>>

\* a record whose manifest gave a PHP version
WithPHPVersion(rec, phpVersion) == [PHPVersion |-> phpVersion] @@ rec

\* json.MarshalIndent of a record, manager.go:430 with the tags of
\* part_002:9-37: the members written, those tagged omitempty left out when
\* they are empty
MarshalInstalled(rec) ==
    LET all == [name |-> rec.Name, version |-> rec.Version,
                depends |-> rec.Depends, php_version |-> PHPVersionOf(rec),
                installed_files |-> rec.InstalledFiles,
                install_slot |-> rec.InstallSlot, pinned |-> rec.Pinned]
        omitted == {k \in {"php_version", "install_slot"} : all[k] = <<>>}
                   \cup {k \in {"pinned"} : all[k] = FALSE}
    IN  [k \in DOMAIN all \ omitted |-> all[k]]

\* the install slot and the pinned flag are not read back
UnmarshalInstalledUntagged(doc) ==
    LET member(k, zero) == IF k \in DOMAIN doc THEN doc[k] ELSE zero
    IN  InstalledPackage(Package(member("name", <<>>), member("version", <<>>),
                                 member("depends", <<>>)),
                         member("name", <<>>), member("installed_files", <<>>),
                         <<>>, FALSE)

\* json.Unmarshal into an InstalledPackage, manager.go:102-105: a member that
\* is absent leaves the zero value of its field
UnmarshalInstalled(doc) ==
    LET member(k, zero) == IF k \in DOMAIN doc THEN doc[k] ELSE zero
        rec == InstalledPackage(Package(member("name", <<>>),
                                        member("version", <<>>),
                                        member("depends", <<>>)),
                                member("name", <<>>),
                                member("installed_files", <<>>),
                                member("install_slot", <<>>),
                                member("pinned", FALSE))
    IN  IF member("php_version", <<>>) = <<>> THEN rec
        ELSE WithPHPVersion(rec, doc.php_version)

\* Manager.LoadInstalled of the manager of the next run, manager.go:80-110:
\* the record files that parse, each under the name in the record; a record
\* file that parses holds what saveInstalled marshalled
Loading ==
    LET parsed == {k \in DOMAIN db : db[k] # <<>>}
        read(k) == UnmarshalInstalled(MarshalInstalled(db[k][1]))
    IN  /\ installed' = [n \in {read(k).Name : k \in parsed} |->
                            read(CHOOSE k \in parsed : read(k).Name = n)]
        /\ last' = Call("load", TRUE, <<>>)
        /\ prev' = Summary(last)
        /\ ops' = ops + 1
        /\ UNCHANGED <<disk, db, placed, failed>>

\* a call of LoadInstalled
LoadInstalled ==
    /\ ops < MaxOps
    /\ Loading
    /\ UNCHANGED <<available, commandVars, resolverVars, otherVars>>

----------------------------------------------------------------------------
(* The installation specification *)

\* the engine as the commands find it once their planning is done
InitInstall ==
    /\ InitEngine
    /\ InitRun
    /\ InitAlone
    /\ available = <<>>
    /\ installed = Ledger({})
    /\ packages = <<>>
    /\ reqIdx = 1
    /\ pc = "planned"
    /\ allToInstall = <<>>
    /\ seenPackages = {}
    /\ installedSlots = {}
    /\ log = <<>>
    /\ pkg = Package(<<>>, <<>>, <<>>)
    /\ stack = <<>>
    /\ resolved = {}
    /\ result = <<>>
    /\ ret = NoReturn

NextInstall ==
    \/ \E a \in DOMAIN Archives, o \in DOMAIN Options, save \in SaveOutcomes :
           \E failAt \in 0..(Len(Archives[a]) + 1) :
               InstallWithOptions(a, o, failAt, save)
    \/ \E name \in RemovedNames : Remove(name)
    \/ \E name \in RemovedNames : RemoveNotInstalled(name)
    \/ LoadInstalled

SpecInstall == InitInstall /\ [][NextInstall]_vars

----------------------------------------------------------------------------
(* The dependency graph of a catalog, for the statements about the walk *)

CatalogNames == {available[i].Name : i \in 1..Len(available)}

\* the parsed dependencies of a package
DepsOfPackage(p) == {ParseDependency(p.Depends[i]) : i \in 1..Len(p.Depends)}

\* the installed package of the name has a version in the relation the
\* operator names to the required version
SatisfiedByInstalled(dep) ==
    /\ dep.Name \in DOMAIN installed
    /\ LET cmp == compareVersions(installed[dep.Name].Version, dep.Version)
       IN  \/ dep.Constraint = <<>>
           \/ dep.Version = <<>>
           \/ dep.Constraint = <<">=">> /\ cmp >= 0
           \/ dep.Constraint = <<">">> /\ cmp > 0
           \/ dep.Constraint = <<"<=">> /\ cmp <= 0
           \/ dep.Constraint = <<"<">> /\ cmp < 0
           \/ dep.Constraint \in {<<"=">>, <<"==">>} /\ cmp = 0

\* the names a package depends on, and those among them no installed package satisfies
DependsOn(p) == {d.Name : d \in DepsOfPackage(p)}
Needs(p) == {d.Name : d \in {e \in DepsOfPackage(p) : ~SatisfiedByInstalled(e)}}

\* the catalog entry a name is resolved to
EntryOf(n) == available[Min(EntriesNamed(available, n))]

\* the names reachable from the names S through unsatisfied dependencies
RECURSIVE NeededClosure(_)
NeededClosure(S) ==
    LET T == S \cup UNION {Needs(EntryOf(n)) : n \in S \cap CatalogNames}
    IN  IF T = S THEN S ELSE NeededClosure(T)

\* the names reachable from the names S through all dependencies
RECURSIVE DependsClosure(_)
DependsClosure(S) ==
    LET T == S \cup UNION {DependsOn(EntryOf(n)) : n \in S \cap CatalogNames}
    IN  IF T = S THEN S ELSE DependsClosure(T)

\* what the walk from the target p has to reach
Reachable(p) == NeededClosure(Needs(p))

\* no package reachable from p through dependencies depends on itself
Acyclic(p) ==
    /\ p.Name \notin DependsClosure(DependsOn(p))
    /\ \A n \in DependsClosure(DependsOn(p)) \cap CatalogNames :
           n \notin DependsClosure(DependsOn(EntryOf(n)))

\* a cycle of unsatisfied dependencies can be reached from p
CycleReachable(p) ==
    \/ p.Name \in Reachable(p)
    \/ \E n \in Reachable(p) \cap CatalogNames : n \in Reachable(EntryOf(n))

\* an unsatisfied dependency without catalog entry can be reached from p
MissingReachable(p) == Reachable(p) \ CatalogNames # {}

PlanNames(plan) == {plan[i].Name : i \in 1..Len(plan)}

Returned == pc \in {"resolve", "loop", "planned"} /\ ret.state \in {"ok", "err"}

----------------------------------------------------------------------------
(* Statements about ResolveDependencies *)

PlanListsOnce(plan) ==
    \A i, j \in 1..Len(plan) : plan[i].Name = plan[j].Name => i = j

\* C1, as claimed: for an acyclic dependency graph the returned plan holds the
\* target and every package reachable through unsatisfied dependencies, each
\* once, and every package comes after all of its dependencies that are in
\* the plan.
C1_PlanAfterAllDependencies ==
    (ret.state = "ok" /\ Acyclic(pkg)) =>
        /\ ({pkg.Name} \cup Reachable(pkg)) \subseteq PlanNames(ret.plan)
        /\ PlanListsOnce(ret.plan)
        /\ \A i, j \in 1..Len(ret.plan) :
               ret.plan[j].Name \in DependsOn(ret.plan[i]) => j < i

\* C1, amended: for an acyclic dependency graph the returned plan holds the
\* target and every package reachable through unsatisfied dependencies, each
\* once, and every package comes after all of its dependencies that no
\* installed package satisfies.
C1_PlanAfterNeededDependencies ==
    (ret.state = "ok" /\ Acyclic(pkg)) =>
        /\ ({pkg.Name} \cup Reachable(pkg)) \subseteq PlanNames(ret.plan)
        /\ PlanListsOnce(ret.plan)
        /\ \A i, j \in 1..Len(ret.plan) :
               ret.plan[j].Name \in Needs(ret.plan[i]) => j < i

\* a plan of a diamond: three packages, one of them reached on two paths
C1_Witness ==
    /\ ret.state = "ok"
    /\ Acyclic(pkg)
    /\ Len(ret.plan) = 3
    /\ \E i, j \in 1..Len(ret.plan) :
           /\ i # j
           /\ Needs(ret.plan[i]) \cap Needs(ret.plan[j]) # {}

\* C4: a dependency that the installed package of its name satisfies makes
\* the walk go on to the next dependency with nothing added to the plan and
\* nothing walked; every package of a returned plan but the target is an
\* unsatisfied dependency of a package of the plan.
C4_SatisfiedDependencySkipped ==
    /\ [][(AtDependency /\ SatisfiedByInstalled(CurDep)) =>
              /\ result' = result
              /\ resolved' = resolved
              /\ ret' = ret
              /\ stack' = Continue(stack)]_vars
    /\ [](ret.state = "ok" =>
              \A j \in 1..Len(ret.plan) :
                  ret.plan[j].Name # pkg.Name =>
                      \E i \in 1..Len(ret.plan) :
                          ret.plan[j].Name \in Needs(ret.plan[i]))

\* a plan whose package has a constrained dependency that is satisfied and so
\* is not in the plan
C4_Witness ==
    /\ ret.state = "ok"
    /\ \E i \in 1..Len(ret.plan) :
           \E d \in DepsOfPackage(ret.plan[i]) :
               /\ d.Constraint # <<>>
               /\ SatisfiedByInstalled(d)
               /\ d.Name \notin PlanNames(ret.plan)

\* the version meets the constraint of the dependency
MeetsConstraint(version, dep) ==
    LET cmp == compareVersions(version, dep.Version)
    IN  \/ dep.Constraint = <<>>
        \/ dep.Version = <<>>
        \/ dep.Constraint = <<">=">> /\ cmp >= 0
        \/ dep.Constraint = <<">">> /\ cmp > 0
        \/ dep.Constraint = <<"<=">> /\ cmp <= 0
        \/ dep.Constraint = <<"<">> /\ cmp < 0
        \/ dep.Constraint \in {<<"=">>, <<"==">>} /\ cmp = 0

\* C5: every package a returned plan holds for a constrained dependency that
\* no installed package satisfies has a version that meets the constraint.
C5_PlanMeetsConstraints ==
    ret.state = "ok" =>
        \A i \in 1..Len(ret.plan) :
            \A d \in DepsOfPackage(ret.plan[i]) :
                (d.Constraint # <<>> /\ ~SatisfiedByInstalled(d)) =>
                    \E j \in 1..Len(ret.plan) :
                        /\ ret.plan[j].Name = d.Name
                        /\ MeetsConstraint(ret.plan[j].Version, d)

\* the next request of the command can be planned
Plannable(name) ==
    /\ RequestFor(name) # <<>>
    /\ ~CycleReachable(RequestFor(name)[1].Package)
    /\ ~MissingReachable(RequestFor(name)[1].Package)

\* C6: a dependency that is neither satisfied nor in the catalog makes the
\* call return the error naming it and no plan; the command then goes on
\* with its next request, the install list unchanged, and at the end every
\* request that can be planned is in the install list.
C6_MissingDependencyFailsOneTarget ==
    /\ [][(AtDependency /\ ~SatisfiedByInstalled(CurDep)
               /\ CurDep.Name \notin CatalogNames) =>
              ret' = [state |-> "err", plan |-> <<>>, name |-> CurDep.Name]]_vars
    /\ [][(pc = "resolve" /\ ret.state = "err") =>
              /\ pc' = "loop"
              /\ reqIdx' = reqIdx + 1
              /\ allToInstall' = allToInstall
              /\ seenPackages' = seenPackages
              /\ log' = Append(log, [error |-> "dependency not found",
                                     name |-> ret.name])]_vars
    /\ [](pc = "planned" =>
              \A k \in 1..Len(packages) :
                  Plannable(packages[k]) =>
                      \E r \in 1..Len(allToInstall) :
                          allToInstall[r].RequestedName = packages[k])

\* the first request failed on a missing dependency and the second is planned
C6_Witness ==
    /\ pc = "planned"
    /\ Len(log) = 1
    /\ log[1].error = "dependency not found"
    /\ log[1].name \notin CatalogNames
    /\ ~Plannable(packages[1])
    /\ \E r \in 1..Len(allToInstall) : allToInstall[r].RequestedName = packages[2]

\* C7, as claimed: with a cycle of unsatisfied dependencies reachable from the
\* target the call returns neither a plan nor an error.
C7_CycleNeverReturns ==
    CycleReachable(pkg) => ret.state = "none"

\* C7, amended: when no cycle of unsatisfied dependencies is reachable from
\* the target the recursion is never deeper than the catalog has names, and
\* every step of the walk moves on (to a deeper frame, to the next dependency
\* of the top frame, or to a return), so the call returns; with such
\* a cycle reachable the call never returns a plan, and returns an error only
\* when an unsatisfied dependency without catalog entry is reachable too.
C7_TerminatesUnlessCycle ==
    /\ [](CycleReachable(pkg) => ret.state # "ok")
    /\ []((CycleReachable(pkg) /\ ~MissingReachable(pkg)) => ret.state = "none")
    /\ [](~CycleReachable(pkg) =>
              /\ Len(stack) <= Cardinality(CatalogNames)
              /\ pc # "crashed")
    /\ [][(Resolving /\ ~CycleReachable(pkg)) =>
              \/ /\ Len(stack') = Len(stack) + 1
                 /\ SubSeq(stack', 1, Len(stack)) = stack
              \/ stack' = Continue(stack)
              \/ stack' = Return(stack)
              \/ stack' = <<>> /\ ret'.state = "err"]_vars

\* the recursion of a walk round a cycle has reached the depth explored
C7_Witness ==
    /\ pc = "crashed"
    /\ Len(stack) = MaxDepth
    /\ CycleReachable(pkg)
    /\ ret.state = "none"

----------------------------------------------------------------------------
(* Statements about InstallWithOptions and Remove *)

\* the paths the records of the ledger list
RecordedFiles ==
    UNION {Range(installed[n].InstalledFiles) : n \in DOMAIN installed}

\* C2: when no call has failed, the files the engine has placed and that are
\* still on disk are exactly the files the records of the ledger list.
C2_LedgerMatchesDisk ==
    ~failed => (placed \cap disk) = RecordedFiles

\* the latest call removed the package that the call before it installed
InstalledThenRemoved ==
    /\ last.op = "remove"
    /\ last.ok
    /\ prev.op = "install"
    /\ prev.ok
    /\ prev.name = last.name

\* C3, as claimed: after a package is installed and then removed every path
\* the install recorded is absent, as it was before the install.
C3_RemoveRestores ==
    InstalledThenRemoved =>
        \A p \in Range(prev.files) : p \notin disk /\ p \notin prev.existed

\* C3, amended: after a package is installed and then removed, the removal
\* has gone through the list the install recorded, and every path of it is
\* absent unless its deletion failed; so the paths that did not exist before
\* the install are as they were, unless their deletion failed.
C3_RemoveDeletesRecorded ==
    InstalledThenRemoved =>
        /\ last.files = prev.files
        /\ \A p \in Range(prev.files) :
               /\ p \notin last.undeletable => p \notin disk
               /\ p \in last.undeletable => p \in disk
               /\ (p \notin prev.existed /\ p \notin last.undeletable) => p \notin disk

\* a package of two files, one of which existed before its install, removed
C3_Witness ==
    /\ InstalledThenRemoved
    /\ Len(prev.files) = 2
    /\ prev.existed # {}
    /\ prev.existed # Range(prev.files)
    /\ last.undeletable = {}
    /\ Range(prev.files) \cap disk = {}

\* the file entries of an archive that are not directories
FileEntriesOf(archive) ==
    {i \in DOMAIN archive :
        /\ HasPrefix(archive[i].Name, FilesPrefix)
        /\ Len(archive[i].Name) > Len(FilesPrefix)
        /\ archive[i].Typeflag # "dir"}

\* the first two components of the version of the manifest of an archive
ArchiveSourceSlot(archive) ==
    LET parts == SplitDots(ArchivePackage(archive).Version)
    IN  IF Len(parts) >= 2 THEN parts[1] \o <<".">> \o parts[2] ELSE <<>>

\* C8: after a successful InstallWithOptions the map and the record file hold
\* the record under the override name, or the manifest name when there is
\* none; its InstalledFiles is the list of the paths written, one for each
\* file entry that is not a directory; its slot is the requested slot, or
\* the source slot of the archive when none is requested; its pinned flag is
\* the one of the options; IsInstalled and GetInstalled report it.
C8_InstallRecorded ==
    (last.op = "install" /\ last.ok) =>
        LET archive == Archives[last.archive]
            opts == Options[last.opts]
            name == IF opts.CustomName # <<>> THEN opts.CustomName
                    ELSE ArchivePackage(archive).Name
        IN  /\ IsInstalled(name)
            /\ GetInstalled(name) = <<installed[name]>>
            /\ RecordFile(name) = <<GetInstalled(name)>>
            /\ installed[name].Name = name
            /\ installed[name].Version = ArchivePackage(archive).Version
            /\ installed[name].InstalledFiles = last.writes
            /\ Len(last.writes) = Cardinality(FileEntriesOf(archive))
            /\ Range(last.writes) \subseteq disk
            /\ installed[name].InstallSlot =
                   IF opts.InstallSlot # <<>> THEN opts.InstallSlot
                   ELSE ArchiveSourceSlot(archive)
            /\ installed[name].Pinned = opts.Pinned

\* a pinned install under its override name of an archive with directory
\* entries and two files
C8_Witness ==
    /\ last.op = "install"
    /\ last.ok
    /\ Options[last.opts].CustomName = PinnedCli
    /\ Options[last.opts].Pinned
    /\ Len(last.writes) = 2
    /\ Cardinality(FileEntriesOf(Archives[last.archive])) < Len(Archives[last.archive]) - 1
    /\ IsInstalled(PinnedCli)
    /\ ~IsInstalled(Cli)

\* C9, as claimed: after a failed InstallWithOptions the record and the
\* record file of the name are what they were before the call, and the files
\* the call has written are on disk.
C9_FailedInstallKeepsLedger ==
    (last.op = "install" /\ ~last.ok) =>
        /\ GetInstalled(last.name) = last.recordBefore
        /\ RecordFile(last.name) = last.fileBefore
        /\ Range(last.writes) \subseteq disk

\* C9, amended: after a failed InstallWithOptions the record of the name in
\* the map is what it was before the call, and the files the call has written
\* are on disk; the record file of the name is what it was before the call
\* unless the step that failed is the saving of the record, which leaves it
\* as it was or truncated.
C9_FailedInstallKeepsRecord ==
    (last.op = "install" /\ ~last.ok) =>
        /\ GetInstalled(last.name) = last.recordBefore
        /\ Range(last.writes) \subseteq disk
        /\ \/ RecordFile(last.name) = last.fileBefore
           \/ last.step = "save" /\ RecordFile(last.name) = << <<>> >>

\* the re-install of an installed package has written its files and failed
\* to save its record, leaving the record file truncated
C9_Witness ==
    /\ last.op = "install"
    /\ ~last.ok
    /\ last.step = "save"
    /\ last.writes # <<>>
    /\ last.recordBefore # <<>>
    /\ last.fileBefore = <<last.recordBefore>>
    /\ RecordFile(last.name) = << <<>> >>

\* C10: an InstallWithOptions with a requested slot other than the source
\* slot of the archive writes no file under the directory of the source slot,
\* and records none when it succeeds.
C10_NothingUnderSourceSlot ==
    LET archive == Archives[last.archive]
        opts == Options[last.opts]
    IN  (/\ last.op = "install"
         /\ opts.InstallSlot # <<>>
         /\ ArchiveSourceSlot(archive) # <<>>
         /\ opts.InstallSlot # ArchiveSourceSlot(archive)) =>
            /\ \A i \in DOMAIN last.writes :
                   ~HasPrefix(last.writes[i], SlotDir(ArchiveSourceSlot(archive)))
            /\ last.ok =>
                   \A i \in DOMAIN installed[last.name].InstalledFiles :
                       ~HasPrefix(installed[last.name].InstalledFiles[i],
                                  SlotDir(ArchiveSourceSlot(archive)))

----------------------------------------------------------------------------
(* Manager.Remove: errors and what is left afterwards *)

\* the step is a call of Remove
RemoveCalled == last'.op = "remove" /\ ops' = ops + 1

\* Remove fails exactly when the ledger has no record of the name, and then
\* changes neither the ledger nor a file
RemoveErrsWhenAbsent ==
    RemoveCalled =>
        /\ ~last'.ok <=> last'.name \notin DOMAIN installed
        /\ ~last'.ok => installed' = installed /\ disk' = disk /\ db' = db

\* a Remove that succeeds leaves no record of the name in memory and, of the
\* other names, every record and record file as it was
RemoveDropsRecord ==
    (RemoveCalled /\ last'.ok) =>
        /\ last'.name \notin DOMAIN installed'
        /\ \A n \in DOMAIN installed \ {last'.name} :
               n \in DOMAIN installed' /\ installed'[n] = installed[n]
        /\ \A n \in DOMAIN db \ {last'.name} : n \in DOMAIN db' /\ db'[n] = db[n]

\* C13 as stated: Remove(name) returns an error exactly when the ledger has no
\* record of the name, and then changes neither the ledger nor any file;
\* otherwise it succeeds, also when recorded files are missing or cannot be
\* deleted, and afterwards no record of the name is in memory or on disk.
C13_RemoveLeavesNoRecord ==
    [][/\ RemoveErrsWhenAbsent
       /\ RemoveDropsRecord
       /\ (RemoveCalled /\ last'.ok) => last'.name \notin DOMAIN db']_vars

\* C13: Remove(name) returns an error exactly when the ledger has no record of
\* the name, and then changes neither the ledger nor any file; otherwise it
\* succeeds, also when recorded files are missing or cannot be deleted, and
\* afterwards no record of the name is in memory; the record file of the name
\* is gone when its deletion, whose result Remove discards, has succeeded,
\* and is what it was when it has not.
C13_RemoveLeavesNoLoadedRecord ==
    [][/\ RemoveErrsWhenAbsent
       /\ RemoveDropsRecord
       /\ (RemoveCalled /\ last'.ok /\ last'.unlinked) =>
              last'.name \notin DOMAIN db'
       /\ (RemoveCalled /\ last'.ok /\ ~last'.unlinked) =>
              /\ last'.name \in DOMAIN db
              /\ db' = db]_vars

\* a Remove has succeeded though one of the two recorded files could not be
\* deleted, and the record is gone from memory and from disk
C13_Witness ==
    /\ last.op = "remove"
    /\ last.ok
    /\ last.unlinked
    /\ last.fileBefore # <<>>
    /\ last.undeletable # {}
    /\ last.undeletable # Range(last.files)
    /\ last.name \notin DOMAIN installed
    /\ last.name \notin DOMAIN db

----------------------------------------------------------------------------
(* runInstall after its planning loop (part_000:386-501) and the install of *)
(* the TUI, Model.doInstall (part_004:655-713)                              *)

\* strings.Count(slot, ".")
Dots(slot) == Cardinality({i \in DOMAIN slot : slot[i] = "."})

\* part_000:488-492, the options runInstall passes for a request
RequestOptions(req) == InstallOptions(req.InstallSlot, req.IsPinned, req.RequestedName)

\* the file of the archive of a catalog entry: one file in the directory of
\* the slot of its version
PackageFile(p) ==
    <<"opt", "/", "php", "/">> \o SourceSlot(p.Version, <<>>) \o <<"/", "bin", "/">> \o p.Name

\* the archive DownloadPackage returns the path of: the one built for the
\* catalog entry, its manifest first
ArchiveOf(p) == <<ManifestEntry(p), FileEntry(PackageFile(p))>>

\* an iteration of an install loop: the requested name and what became of it
Outcome(name, what) == [name |-> name, result |-> what]

\* Manager.GetInstalledByPrefix(prefix), as the set of the names
GetInstalledByPrefix(prefix) == {n \in DOMAIN installed : HasPrefix(n, prefix)}

\* part_000:394-423, packagesToUpgrade: the installed packages of the tracked
\* slots of the plan that are not in the plan, are not pinned and have a
\* newer catalog entry
UpgradeRequests ==
    UNION {{installRequest(n, n, slot, FALSE, GetPackage(n)[1]) :
               n \in {m \in GetInstalledByPrefix(<<"php">> \o slot) :
                         /\ m \notin seenPackages
                         /\ ~installed[m].Pinned
                         /\ GetPackage(m) # <<>>
                         /\ compareVersions(GetPackage(m)[1].Version,
                                            installed[m].Version) > 0}} :
           slot \in {s \in installedSlots : Dots(s) < 2}}

\* part_000:386-389, "No packages to install."
NothingToInstall ==
    /\ pc = "planned"
    /\ allToInstall = <<>>
    /\ pc' = "done"
    /\ UNCHANGED <<otherVars, engineVars, available, installed, packages, reqIdx,
                   allToInstall, seenPackages, installedSlots, log, resolverVars>>

\* part_000:391-423, the packages to upgrade are collected
PlanUpgrades ==
    /\ pc = "planned"
    /\ allToInstall # <<>>
    /\ toUpgrade' = UpgradeRequests
    /\ pc' = "upgrade"
    /\ UNCHANGED <<aloneVars, engineVars, available, installed, packages, reqIdx,
                   allToInstall, seenPackages, installedSlots, log, resolverVars,
                   force, caller, instIdx, outcomes>>

\* part_000:436-440, the download of a package to upgrade fails: continue
UpgradeDownloadFailed(req) ==
    /\ pc = "upgrade"
    /\ req \in toUpgrade
    /\ toUpgrade' = toUpgrade \ {req}
    /\ log' = Append(log, [error |-> "Failed to download", name |-> req.RequestedName])
    /\ UNCHANGED <<aloneVars, engineVars, available, installed, packages, reqIdx, pc,
                   allToInstall, seenPackages, installedSlots, resolverVars,
                   force, caller, instIdx, outcomes>>

\* part_000:441-450, a package to upgrade is installed, or "Failed to
\* upgrade": continue
UpgradeInstall(req, failAt, save) ==
    /\ pc = "upgrade"
    /\ req \in toUpgrade
    /\ Installing(ArchiveOf(req.Package), RequestOptions(req), failAt, save, 0, 0)
    /\ toUpgrade' = toUpgrade \ {req}
    /\ log' = IF last'.ok THEN log
              ELSE Append(log, [error |-> "Failed to upgrade", name |-> req.RequestedName])
    /\ UNCHANGED <<aloneVars, available, packages, reqIdx, pc, allToInstall, seenPackages,
                   installedSlots, resolverVars, force, caller, instIdx, outcomes>>

\* part_000:455-472, the install loop starts
UpgradesDone ==
    /\ pc = "upgrade"
    /\ toUpgrade = {}
    /\ pc' = "install"
    /\ instIdx' = 1
    /\ UNCHANGED <<aloneVars, engineVars, available, installed, packages, reqIdx,
                   allToInstall, seenPackages, installedSlots, log, resolverVars,
                   force, caller, toUpgrade, outcomes>>

AtInstall == pc = "install" /\ instIdx <= Len(allToInstall)

\* no request is left out
SkippedNever(req) == FALSE

\* part_000:473, the request is installed and --force is not given
Skipped(req) == IsInstalled(req.RequestedName) /\ ~force

\* part_000:473-476, "already installed": continue
InstallSkip ==
    /\ AtInstall
    /\ Skipped(allToInstall[instIdx])
    /\ outcomes' = Append(outcomes, Outcome(allToInstall[instIdx].RequestedName, "skipped"))
    /\ instIdx' = instIdx + 1
    /\ UNCHANGED <<aloneVars, engineVars, available, installed, commandVars, resolverVars,
                   force, caller, toUpgrade>>

\* a download failure that ends the loop
InstallDownloadFailedLast ==
    /\ AtInstall
    /\ ~Skipped(allToInstall[instIdx])
    /\ outcomes' = Append(outcomes, Outcome(allToInstall[instIdx].RequestedName, "download"))
    /\ instIdx' = Len(allToInstall) + 1
    /\ UNCHANGED <<aloneVars, engineVars, available, installed, commandVars, resolverVars,
                   force, caller, toUpgrade>>

\* part_000:481-485, "Failed to download": continue
InstallDownloadFailed ==
    /\ AtInstall
    /\ ~Skipped(allToInstall[instIdx])
    /\ outcomes' = Append(outcomes, Outcome(allToInstall[instIdx].RequestedName, "download"))
    /\ instIdx' = instIdx + 1
    /\ UNCHANGED <<aloneVars, engineVars, available, installed, commandVars, resolverVars,
                   force, caller, toUpgrade>>

\* part_000:488-500, the request is installed, or "Failed to install": continue
InstallPlanned(failAt, save) ==
    /\ AtInstall
    /\ ~Skipped(allToInstall[instIdx])
    /\ Installing(ArchiveOf(allToInstall[instIdx].Package),
                  RequestOptions(allToInstall[instIdx]), failAt, save, 0, 0)
    /\ outcomes' = Append(outcomes,
                          Outcome(allToInstall[instIdx].RequestedName,
                                  IF last'.ok THEN "installed" ELSE "install"))
    /\ instIdx' = instIdx + 1
    /\ UNCHANGED <<aloneVars, available, commandVars, resolverVars, force, caller, toUpgrade>>

\* part_000:501, the install loop ends
InstallDone ==
    /\ pc = "install"
    /\ instIdx > Len(allToInstall)
    /\ pc' = "done"
    /\ UNCHANGED <<otherVars, engineVars, available, installed, packages, reqIdx,
                   allToInstall, seenPackages, installedSlots, log, resolverVars>>


\* Model.doInstall (part_004:655-713): packages holds the names built from
\* the selections, reqIdx the position of the loop over them, ret.plan the
\* toInstall of the name the loop is at

AtSelected == pc = "tui" /\ reqIdx <= Len(packages)

\* part_004:678-681, no catalog entry of the name: continue
TuiNotFound ==
    /\ AtSelected
    /\ GetPackage(packages[reqIdx]) = <<>>
    /\ reqIdx' = reqIdx + 1
    /\ UNCHANGED <<otherVars, engineVars, available, installed, packages, pc,
                   allToInstall, seenPackages, installedSlots, log, resolverVars>>

\* part_004:683, the call of ResolveDependencies(pkgToInstall, allAvailable)
TuiResolve ==
    /\ AtSelected
    /\ GetPackage(packages[reqIdx]) # <<>>
    /\ pkg' = GetPackage(packages[reqIdx])[1]
    /\ stack' = <<Frame(pkg')>>
    /\ resolved' = {}
    /\ result' = <<>>
    /\ ret' = NoReturn
    /\ pc' = "resolve"
    /\ UNCHANGED <<otherVars, engineVars, available, installed, packages, reqIdx,
                   allToInstall, seenPackages, installedSlots, log>>

\* part_004:684-686, the resolution fails: doInstall returns the error
TuiResolveFailed ==
    /\ pc = "resolve"
    /\ caller = "tui"
    /\ ret.state = "err"
    /\ log' = Append(log, [error |-> "dependency not found", name |-> ret.name])
    /\ pc' = "done"
    /\ UNCHANGED <<otherVars, engineVars, available, installed, packages, reqIdx,
                   allToInstall, seenPackages, installedSlots, resolverVars>>

\* part_004:688, the loop over toInstall starts
TuiResolved ==
    /\ pc = "resolve"
    /\ caller = "tui"
    /\ ret.state = "ok"
    /\ instIdx' = 1
    /\ pc' = "tui install"
    /\ UNCHANGED <<aloneVars, engineVars, available, installed, packages, reqIdx,
                   allToInstall, seenPackages, installedSlots, log, resolverVars,
                   force, caller, toUpgrade, outcomes>>

AtTuiInstall == pc = "tui install" /\ instIdx <= Len(ret.plan)

\* part_004:689-691, the package is installed: continue
TuiSkip ==
    /\ AtTuiInstall
    /\ IsInstalled(ret.plan[instIdx].Name)
    /\ outcomes' = Append(outcomes, Outcome(ret.plan[instIdx].Name, "skipped"))
    /\ instIdx' = instIdx + 1
    /\ UNCHANGED <<aloneVars, engineVars, available, installed, commandVars, resolverVars,
                   force, caller, toUpgrade>>

\* part_004:695-698, the download fails: doInstall returns the error
TuiDownloadFailed ==
    /\ AtTuiInstall
    /\ ~IsInstalled(ret.plan[instIdx].Name)
    /\ outcomes' = Append(outcomes, Outcome(ret.plan[instIdx].Name, "download"))
    /\ log' = Append(log, [error |-> "Failed to download", name |-> ret.plan[instIdx].Name])
    /\ pc' = "done"
    /\ UNCHANGED <<aloneVars, engineVars, available, installed, packages, reqIdx,
                   allToInstall, seenPackages, installedSlots, resolverVars,
                   force, caller, toUpgrade, instIdx>>

\* part_004:700-702, Manager.Install(path): the package is installed, or
\* doInstall returns the error
TuiInstall(failAt, save) ==
    /\ AtTuiInstall
    /\ ~IsInstalled(ret.plan[instIdx].Name)
    /\ Installing(ArchiveOf(ret.plan[instIdx]), InstallOptions(<<>>, FALSE, <<>>),
                  failAt, save, 0, 0)
    /\ outcomes' = Append(outcomes,
                          Outcome(ret.plan[instIdx].Name,
                                  IF last'.ok THEN "installed" ELSE "install"))
    /\ instIdx' = IF last'.ok THEN instIdx + 1 ELSE instIdx
    /\ pc' = IF last'.ok THEN pc ELSE "done"
    /\ log' = IF last'.ok THEN log
              ELSE Append(log, [error |-> "Failed to install",
                                name |-> ret.plan[instIdx].Name])
    /\ UNCHANGED <<aloneVars, available, packages, reqIdx, allToInstall, seenPackages,
                   installedSlots, resolverVars, force, caller, toUpgrade>>

\* part_004:703-704, the loop over toInstall ends: the next selected name
TuiInstalled ==
    /\ pc = "tui install"
    /\ instIdx > Len(ret.plan)
    /\ reqIdx' = reqIdx + 1
    /\ pc' = "tui"
    /\ UNCHANGED <<otherVars, engineVars, available, installed, packages,
                   allToInstall, seenPackages, installedSlots, log, resolverVars>>

\* part_004:706-712, the loop over the names ends: "Done!"
TuiDone ==
    /\ pc = "tui"
    /\ reqIdx > Len(packages)
    /\ pc' = "done"
    /\ UNCHANGED <<otherVars, engineVars, available, installed, packages, reqIdx,
                   allToInstall, seenPackages, installedSlots, log, resolverVars>>


\* the catalogs, ledgers and requests of the runs of the install commands

\* a name of the old naming scheme, the patch version in the name
OldCli == <<"php", "8", ".", "5", ".", "0", "-", "cli">>

\* the catalogs: php8.5-cli depending on php8.5-common twice over, a catalog
\* of the old naming scheme, one with a dependency that it does not carry,
\* one with a dependency cycle, one that carries php8.5-cli beside an entry
\* of the old naming scheme, and one whose php8.5-cli needs the php8.5-common
\* it carries
CommandCatalogs ==
    {<<Package(Common, PatchVersion("1"), <<>>),
       Package(Cli, PatchVersion("1"),
               <<Constrained(Common, ">=", PatchVersion("0")), Common>>)>>,
     <<Package(OldCli, PatchVersion("0"), <<>>),
       Package(Common, PatchVersion("1"), <<>>)>>,
     <<Package(Common, PatchVersion("1"), <<>>),
       Package(Cli, PatchVersion("1"), <<Redis>>)>>,
     <<Package(Common, PatchVersion("1"), <<Cli>>),
       Package(Cli, PatchVersion("1"), <<Common>>)>>,
     <<Package(Cli, PatchVersion("1"), <<>>),
       Package(OldCli, PatchVersion("0"), <<>>)>>,
     <<Package(Common, PatchVersion("1"), <<>>),
       Package(Cli, PatchVersion("1"),
               <<Constrained(Common, ">=", PatchVersion("1"))>>)>>}

\* what an earlier run has installed of php8.5-common 8.5.0 in the tracked slot
EarlierCommon ==
    LET p == Package(Common, PatchVersion("0"), <<>>)
    IN  InstalledPackage(p, Common, <<<<"/">> \o PackageFile(p)>>, V("8", "5"), FALSE)

\* the names asked of runInstall
RequestedNames == {Common, Cli, PinnedCli, OldCli}

\* the names Model.doInstall builds from the selections: the common package,
\* the selected SAPIs, the selected extensions
SelectedNames == {<<Common>>, <<Common, Cli>>, <<Common, Cli, Redis>>}

\* a run of runInstall or of Model.doInstall, on a host where nothing is
\* installed or where php8.5-common 8.5.0 is
InitInstallCommand ==
    /\ InitAlone
    /\ available \in CommandCatalogs
    /\ \E earlier \in BOOLEAN :
           /\ installed = IF earlier THEN Put(Ledger({}), Common, EarlierCommon)
                          ELSE Ledger({})
           /\ db = IF earlier THEN Put(<<>>, Common, <<EarlierCommon>>) ELSE <<>>
           /\ disk = IF earlier THEN Range(EarlierCommon.InstalledFiles) ELSE {}
           /\ placed = disk
    /\ failed = FALSE
    /\ last = NoCall
    /\ prev = Summary(NoCall)
    /\ ops = 0
    /\ caller \in {"cli", "tui"}
    /\ force \in (IF caller = "cli" THEN BOOLEAN ELSE {FALSE})
    /\ packages \in (IF caller = "cli"
                     THEN {<<n>> : n \in RequestedNames}
                              \cup {<<m, n>> : m, n \in RequestedNames}
                     ELSE SelectedNames)
    /\ pc = IF caller = "cli" THEN "loop" ELSE "tui"
    /\ reqIdx = 1
    /\ allToInstall = <<>>
    /\ seenPackages = {}
    /\ installedSlots = {}
    /\ log = <<>>
    /\ pkg = Package(<<>>, <<>>, <<>>)
    /\ stack = <<>>
    /\ resolved = {}
    /\ result = <<>>
    /\ ret = NoReturn
    /\ toUpgrade = {}
    /\ instIdx = 1
    /\ outcomes = <<>>

\* the entries of the archive of a package and the one after: where an
\* extraction can fail
FailPoints == 0..3

NextInstallCommand ==
    \/ NextResolve
    \/ NothingToInstall
    \/ PlanUpgrades
    \/ \E req \in toUpgrade : UpgradeDownloadFailed(req)
    \/ \E req \in toUpgrade, failAt \in FailPoints, save \in SaveOutcomes :
           UpgradeInstall(req, failAt, save)
    \/ UpgradesDone
    \/ InstallSkip
    \/ InstallDownloadFailed
    \/ \E failAt \in FailPoints, save \in SaveOutcomes : InstallPlanned(failAt, save)
    \/ InstallDone
    \/ TuiNotFound
    \/ TuiResolve
    \/ TuiResolveFailed
    \/ TuiResolved
    \/ TuiSkip
    \/ TuiDownloadFailed
    \/ \E failAt \in FailPoints, save \in SaveOutcomes : TuiInstall(failAt, save)
    \/ TuiInstalled
    \/ TuiDone

SpecInstallCommand == InitInstallCommand /\ [][NextInstallCommand]_vars


----------------------------------------------------------------------------
(* The records of a pinned and of a tracked installation *)

\* iteration i of the install loop has installed the name
InstalledAt(i, name) == outcomes[i] = Outcome(name, "installed")

\* the run has installed php8.5.1-cli and, later, php8.5-cli
PinnedThenTracked ==
    \E i, j \in DOMAIN outcomes :
        i < j /\ InstalledAt(i, PinnedCli) /\ InstalledAt(j, Cli)

\* C11: after php8.5.1-cli (pinned) and then php8.5-cli (tracked) are
\* installed from the one catalog entry php8.5-cli, the ledger holds two
\* records, php8.5.1-cli in slot 8.5.1 and pinned, php8.5-cli in slot 8.5 and
\* not pinned, both of the version of the entry and each with its record
\* file; the second installation leaves the first record as it was.
C11_PinnedAndTrackedRecords ==
    /\ [](PinnedThenTracked =>
            /\ {PinnedCli, Cli} \subseteq DOMAIN installed
            /\ installed[PinnedCli].Name = PinnedCli
            /\ installed[PinnedCli].InstallSlot = PatchVersion("1")
            /\ installed[PinnedCli].Pinned
            /\ installed[Cli].Name = Cli
            /\ installed[Cli].InstallSlot = V("8", "5")
            /\ ~installed[Cli].Pinned
            /\ installed[PinnedCli].Version = FirstNamed(available, Cli)[1].Version
            /\ installed[Cli].Version = FirstNamed(available, Cli)[1].Version
            /\ RecordFile(PinnedCli) = <<GetInstalled(PinnedCli)>>
            /\ RecordFile(Cli) = <<GetInstalled(Cli)>>)
    /\ [][(/\ PinnedCli \in DOMAIN installed
           /\ Len(outcomes') = Len(outcomes) + 1
           /\ outcomes'[Len(outcomes')] = Outcome(Cli, "installed")) =>
              /\ PinnedCli \in DOMAIN installed'
              /\ installed'[PinnedCli] = installed[PinnedCli]
              /\ RecordFile(PinnedCli)' = RecordFile(PinnedCli)
              /\ Range(installed[PinnedCli].InstalledFiles) \cap Range(last'.writes) = {}]_vars

\* a run of the install command has ended with both installed, the tracked
\* one after the pinned one
C11_Witness ==
    /\ pc = "done"
    /\ caller = "cli"
    /\ PinnedThenTracked
    /\ installed[PinnedCli] # installed[Cli]


\* C12: in every ledger the install and upgrade commands reach, a pinned
\* record has an install slot of three components (major.minor.patch) and a
\* record that is not pinned one of two (major.minor).
C12_SlotMatchesPinned ==
    \A n \in DOMAIN installed :
        Dots(installed[n].InstallSlot) = IF installed[n].Pinned THEN 2 ELSE 1


----------------------------------------------------------------------------
(* A failure in the middle of a plan *)

\* the names of the plan the run installs: the install list of runInstall;
\* for Model.doInstall the selected names the catalog carries and the
\* toInstall of the one it is at
PlanOfRun ==
    IF caller = "cli"
    THEN {allToInstall[i].RequestedName : i \in DOMAIN allToInstall}
    ELSE {packages[k] : k \in {j \in DOMAIN packages : GetPackage(packages[j]) # <<>>}}
             \cup {ret.plan[i].Name : i \in DOMAIN ret.plan}

\* every package of the plan has had its iteration of the install loop
AllAttempted ==
    \A name \in PlanOfRun : \E k \in DOMAIN outcomes : outcomes[k].name = name

Failures == {"download", "install"}

\* what the loop has installed is recorded, in memory and on disk
SuccessesCommitted ==
    \A k \in DOMAIN outcomes :
        outcomes[k].result = "installed" =>
            /\ IsInstalled(outcomes[k].name)
            /\ RecordFile(outcomes[k].name) = <<GetInstalled(outcomes[k].name)>>
            /\ Range(installed[outcomes[k].name].InstalledFiles) \subseteq disk

\* C15 as stated: whoever calls, when the download or the installation of a
\* package of a plan fails, the other packages of the plan are attempted all
\* the same and what succeeds is committed.
C15_EveryCallerGoesOn ==
    /\ SuccessesCommitted
    /\ (pc = "done" /\ \E k \in DOMAIN outcomes : outcomes[k].result \in Failures) =>
           AllAttempted

\* what holds of C15: when the download or the installation of a package of
\* the plan of runInstall fails, the loop goes on: at its end every package of the plan
\* has had its iteration, in the order of the plan; what an install loop has
\* installed is recorded, in memory and on disk, whoever calls; Model.doInstall
\* returns at the first download or installation that fails, without
\* attempting what is left of its plan.
CommandGoesOn ==
    /\ SuccessesCommitted
    /\ (caller = "cli" /\ pc = "done") =>
           /\ Len(outcomes) = Len(allToInstall)
           /\ \A i \in DOMAIN outcomes : outcomes[i].name = allToInstall[i].RequestedName
    /\ (caller = "cli" /\ pc = "install") => Len(outcomes) = instIdx - 1
    /\ caller = "tui" =>
           \A k \in DOMAIN outcomes :
               outcomes[k].result \in Failures => k = Len(outcomes) /\ pc = "done"

\* runInstall has ended: a download and an installation have failed and a
\* later package of the plan is installed
FailedAndWentOn ==
    /\ caller = "cli"
    /\ pc = "done"
    /\ \E i, j, k \in DOMAIN outcomes :
           /\ i < k /\ j < k
           /\ outcomes[i].result = "download"
           /\ outcomes[j].result = "install"
           /\ outcomes[k].result = "installed"


----------------------------------------------------------------------------
(* runRemove (part_000:804-866) and the removal of the TUI, Model.doRemove  *)
(* (part_004:763-800).  The symbolic links of a PHP version, which both    *)
(* take away once its last package is gone, are no files of a record and    *)
(* are left out.                                                            *)

\* a check that finds no dependent
GetDependentsNone(name) == {}

\* Manager.GetDependents(name), manager.go:483-502, as the set of the names
GetDependents(name) ==
    {n \in DOMAIN installed \ {name} :
        \E i \in DOMAIN installed[n].Depends :
            ParseDependency(installed[n].Depends[i]).Name = name}

\* part_000:810-813, the records are loaded
RemoveLoad ==
    /\ pc = "load"
    /\ Loading
    /\ pc' = IF caller = "cli" THEN "remove" ELSE "collect"
    /\ UNCHANGED <<available, packages, reqIdx, allToInstall, seenPackages,
                   installedSlots, log, resolverVars, otherVars>>

AtRemoval == pc = "remove" /\ reqIdx <= Len(packages)

\* part_000:818-821, "is not installed": continue
RemoveWarnNotInstalled ==
    /\ AtRemoval
    /\ caller = "cli"
    /\ ~IsInstalled(packages[reqIdx])
    /\ log' = Append(log, [error |-> "not installed", name |-> packages[reqIdx]])
    /\ reqIdx' = reqIdx + 1
    /\ UNCHANGED <<otherVars, engineVars, available, installed, packages, pc,
                   allToInstall, seenPackages, installedSlots, resolverVars>>

\* part_000:824-832, "Cannot remove, required by": continue
RemoveBlocked ==
    /\ AtRemoval
    /\ caller = "cli"
    /\ IsInstalled(packages[reqIdx])
    /\ GetDependents(packages[reqIdx]) # {}
    /\ log' = Append(log, [error |-> "required by", name |-> packages[reqIdx],
                           dependents |-> GetDependents(packages[reqIdx])])
    /\ reqIdx' = reqIdx + 1
    /\ UNCHANGED <<otherVars, engineVars, available, installed, packages, pc,
                   allToInstall, seenPackages, installedSlots, resolverVars>>

\* part_000:834-841, mgr.Remove(name)
RemoveRequested ==
    /\ AtRemoval
    /\ caller = "cli"
    /\ IsInstalled(packages[reqIdx])
    /\ GetDependents(packages[reqIdx]) = {}
    /\ Removing(packages[reqIdx])
    /\ reqIdx' = reqIdx + 1
    /\ UNCHANGED <<available, packages, pc, allToInstall, seenPackages,
                   installedSlots, log, resolverVars, otherVars>>

\* the orders of the elements of a set
Orders(S) ==
    {s \in [1..Cardinality(S) -> S] : \A i, j \in DOMAIN s : s[i] = s[j] => i = j}

\* fmt.Sprintf("php%s-", m.selectedVersion)
SelectedPrefix == <<"php", "8", ".", "5", "-">>

\* part_004:764-777, toRemove: the installed names of the selected version,
\* in the order the map yields them; none: doRemove returns an error
TuiCollect ==
    /\ pc = "collect"
    /\ packages' \in Orders(GetInstalledByPrefix(SelectedPrefix))
    /\ reqIdx' = 1
    /\ pc' = IF packages' = <<>> THEN "done" ELSE "remove"
    /\ UNCHANGED <<otherVars, engineVars, available, installed, allToInstall,
                   seenPackages, installedSlots, log, resolverVars>>

\* part_004:780-786, m.manager.Remove(pkgName)
TuiRemove ==
    /\ AtRemoval
    /\ caller = "tui"
    /\ Removing(packages[reqIdx])
    /\ reqIdx' = reqIdx + 1
    /\ UNCHANGED <<available, packages, pc, allToInstall, seenPackages,
                   installedSlots, log, resolverVars, otherVars>>

\* the loop over the names ends
RemoveDone ==
    /\ pc = "remove"
    /\ reqIdx > Len(packages)
    /\ pc' = "done"
    /\ UNCHANGED <<otherVars, engineVars, available, installed, packages, reqIdx,
                   allToInstall, seenPackages, installedSlots, log, resolverVars>>

\* the records a host may hold: php8.5-common, php8.5-cli and the pinned
\* php8.5.1-cli, which need it, and php8.5-redis, which needs both
HostRecord(name) ==
    LET depends == CASE name = Common -> <<>>
                     [] name = Cli -> <<Constrained(Common, ">=", PatchVersion("0"))>>
                     [] name = PinnedCli -> <<Common>>
                     [] name = Redis -> <<Cli, Constrained(Common, ">=", PatchVersion("0"))>>
        p == Package(IF name = PinnedCli THEN Cli ELSE name, PatchVersion("1"), depends)
        slot == IF name = PinnedCli THEN PatchVersion("1") ELSE V("8", "5")
    IN  InstalledPackage(p, name,
                         <<DestPath(FilesPrefix \o PackageFile(p),
                                    InstallOptions(slot, name = PinnedCli, name),
                                    V("8", "5"))>>,
                         slot, name = PinnedCli)

HostNames == {Common, Cli, PinnedCli, Redis}

\* a run of runRemove or of Model.doRemove on a host where some of the
\* packages are installed, each with its record file and its file
InitRemoveCommand ==
    /\ InitAlone
    /\ \E S \in SUBSET HostNames :
           /\ db = [n \in S |-> <<HostRecord(n)>>]
           /\ disk = UNION {Range(HostRecord(n).InstalledFiles) : n \in S}
    /\ placed = disk
    /\ installed = Ledger({})
    /\ failed = FALSE
    /\ last = NoCall
    /\ prev = Summary(NoCall)
    /\ ops = 0
    /\ force = FALSE
    /\ caller \in {"cli", "tui"}
    /\ toUpgrade = {}
    /\ instIdx = 1
    /\ outcomes = <<>>
    /\ available = <<>>
    /\ packages \in (IF caller = "cli"
                     THEN {<<n>> : n \in HostNames} \cup {<<m, n>> : m, n \in HostNames}
                     ELSE {<<>>})
    /\ pc = "load"
    /\ reqIdx = 1
    /\ allToInstall = <<>>
    /\ seenPackages = {}
    /\ installedSlots = {}
    /\ log = <<>>
    /\ pkg = Package(<<>>, <<>>, <<>>)
    /\ stack = <<>>
    /\ resolved = {}
    /\ result = <<>>
    /\ ret = NoReturn

NextRemoveCommand ==
    \/ RemoveLoad
    \/ RemoveWarnNotInstalled
    \/ RemoveBlocked
    \/ RemoveRequested
    \/ TuiCollect
    \/ TuiRemove
    \/ RemoveDone

SpecRemoveCommand == InitRemoveCommand /\ [][NextRemoveCommand]_vars


\* the dependency string names the package: the name alone, or the name and
\* a constraint in brackets after it
Names(dep, name) == dep = name \/ HasPrefix(dep, name \o <<" ", "(">>)

\* the other installed records with a dependency string that names the package
RequiredBy(name) ==
    {n \in DOMAIN installed \ {name} :
        \E i \in DOMAIN installed[n].Depends : Names(installed[n].Depends[i], name)}

\* C14: the remove command removes no package that a dependency string of
\* another installed record names: for such a package it reports the
\* dependents, leaves the ledger, the record files and the files as they are
\* and goes on to the next requested package; Manager.Remove itself checks
\* no dependents: called by Model.doRemove, it removes the package all the same.
C14_RemoveKeepsRequired ==
    [][/\ \A n \in DOMAIN installed \ DOMAIN installed' :
              caller = "cli" => RequiredBy(n) = {}
       /\ (/\ caller = "cli"
           /\ AtRemoval
           /\ IsInstalled(packages[reqIdx])
           /\ RequiredBy(packages[reqIdx]) # {}) =>
              /\ installed' = installed
              /\ db' = db
              /\ disk' = disk
              /\ reqIdx' = reqIdx + 1
              /\ pc' = pc
              /\ log' = Append(log, [error |-> "required by", name |-> packages[reqIdx],
                                     dependents |-> RequiredBy(packages[reqIdx])])
       /\ (/\ caller = "tui"
           /\ AtRemoval
           /\ IsInstalled(packages[reqIdx])) =>
              /\ last'.op = "remove"
              /\ last'.ok
              /\ packages[reqIdx] \notin DOMAIN installed']_vars

\* runRemove has ended: it has refused the first requested package, which
\* php8.5-cli requires and which is installed as it was, files and all, and
\* has removed the second
C14_Witness ==
    /\ caller = "cli"
    /\ pc = "done"
    /\ Len(packages) = 2
    /\ Len(log) = 1
    /\ log[1].error = "required by"
    /\ log[1].name = packages[1]
    /\ Cli \in log[1].dependents
    /\ Cli \in RequiredBy(packages[1])
    /\ RecordFile(packages[1]) = <<GetInstalled(packages[1])>>
    /\ Range(installed[packages[1]].InstalledFiles) \subseteq disk
    /\ last.op = "remove"
    /\ last.name = packages[2]
    /\ ~IsInstalled(packages[2])

----------------------------------------------------------------------------
(* Upgrade checks: manager.go CheckUpgrade, CheckUpgradeWithPHP *)

CheckUpgrade(name, availableVersion) ==
    IF GetInstalled(name) = <<>> THEN <<>>
    ELSE IF GetInstalled(name)[1].Pinned THEN <<>>
    ELSE IF compareVersions(availableVersion, GetInstalled(name)[1].Version) > 0
    THEN availableVersion
    ELSE <<>>

\* the PHP version decides whatever the versions of the package are
CheckUpgradeWithPHPOnly(name, availableVersion, availablePHPVersion) ==
    IF GetInstalled(name) = <<>> THEN <<>>
    ELSE IF GetInstalled(name)[1].Pinned THEN <<>>
    ELSE LET rec == GetInstalled(name)[1]
             versionCmp == compareVersions(availableVersion, rec.Version)
         IN  IF versionCmp > 0 THEN availableVersion
             ELSE IF /\ availablePHPVersion # <<>>
                     /\ PHPVersionOf(rec) # <<>>
                     /\ compareVersions(availablePHPVersion, PHPVersionOf(rec)) > 0
             THEN availableVersion
             ELSE <<>>

CheckUpgradeWithPHP(name, availableVersion, availablePHPVersion) ==
    IF GetInstalled(name) = <<>> THEN <<>>
    ELSE IF GetInstalled(name)[1].Pinned THEN <<>>
    ELSE LET rec == GetInstalled(name)[1]
             versionCmp == compareVersions(availableVersion, rec.Version)
         IN  IF versionCmp > 0 THEN availableVersion
             ELSE IF /\ versionCmp = 0
                     /\ availablePHPVersion # <<>>
                     /\ PHPVersionOf(rec) # <<>>
                     /\ compareVersions(availablePHPVersion, PHPVersionOf(rec)) > 0
             THEN availableVersion
             ELSE <<>>

\* one question to the manager: both functions on the same arguments
AskUpgrade(name, version, phpVersion) ==
    /\ checked' = <<[name           |-> name,
                     version        |-> version,
                     phpVersion     |-> phpVersion,
                     upgrade        |-> CheckUpgrade(name, version),
                     upgradeWithPHP |-> CheckUpgradeWithPHP(name, version, phpVersion)]>>
    /\ UNCHANGED <<available, installed, commandVars, resolverVars, engineVars,
                   runVars, repoVars, others, tui>>

\* the versions of the catalog and of the records: 6.3 and 6.3.0 compare
\* equal, the empty string compares equal to 0
ExtVersions == {<<>>, V("6", "3"), <<"6", ".", "3", ".", "0">>, V("6", "10")}
PHPVersions == {<<>>, PatchVersion("0"), PatchVersion("1")}
UpgradeNames == {Cli, Redis}

\* the record of name at a version, built for a PHP version
UpgradeRecord(name, version, phpVersion, pinned) ==
    LET rec == InstalledPackage(Package(name, version, <<>>), name, <<>>,
                                V("8", "5"), pinned)
    IN  IF phpVersion = <<>> THEN rec ELSE WithPHPVersion(rec, phpVersion)

UpgradeRecords(name) ==
    {UpgradeRecord(name, v, p, pinned) :
        v \in ExtVersions \ {<<>>}, p \in PHPVersions, pinned \in BOOLEAN}

\* Cli installed or not, Redis installed or not
UpgradeLedgers ==
    {Ledger({})}
        \cup {Put(Ledger({}), Cli, r) : r \in UpgradeRecords(Cli)}
        \cup {Put(Ledger({}), Redis, r) : r \in UpgradeRecords(Redis)}
        \cup {Put(Put(Ledger({}), Cli, UpgradeRecord(Cli, V("6", "3"), <<>>, TRUE)),
                  Redis, r) : r \in UpgradeRecords(Redis)}

InitCheckUpgrade == InitCommand({<<>>}, UpgradeLedgers, {<<>>})

NextCheckUpgrade ==
    \E name \in UpgradeNames, version \in ExtVersions, phpVersion \in PHPVersions :
        AskUpgrade(name, version, phpVersion)

SpecCheckUpgrade == InitCheckUpgrade /\ [][NextCheckUpgrade]_vars

\* C16: CheckUpgrade and CheckUpgradeWithPHP answer the empty string when
\* the name is not installed or its record is pinned, whatever the version
\* of the catalog; otherwise CheckUpgrade answers the version of the catalog
\* exactly when it compares strictly greater than the installed version, and
\* CheckUpgradeWithPHP answers it then and also when the versions compare
\* equal and the PHP version of the catalog compares strictly greater than
\* the one of the record, both given
C16_UpgradeAnswers ==
    \A i \in DOMAIN checked :
        LET c == checked[i]
        IN  IF c.name \notin DOMAIN installed \/ installed[c.name].Pinned
            THEN c.upgrade = <<>> /\ c.upgradeWithPHP = <<>>
            ELSE LET rec == installed[c.name]
                     greater == compareVersions(c.version, rec.Version) > 0
                     rebuilt ==
                         /\ compareVersions(c.version, rec.Version) = 0
                         /\ c.phpVersion # <<>>
                         /\ PHPVersionOf(rec) # <<>>
                         /\ compareVersions(c.phpVersion, PHPVersionOf(rec)) > 0
                 IN  /\ c.upgrade = (IF greater THEN c.version ELSE <<>>)
                     /\ c.upgradeWithPHP =
                            (IF greater \/ rebuilt THEN c.version ELSE <<>>)

\* the same version of redis built for a newer PHP: only CheckUpgradeWithPHP
\* answers it, and a pinned php8.5-cli is in the ledger
C16_Witness ==
    /\ checked # <<>>
    /\ checked[1].name = Redis
    /\ IsInstalled(Redis)
    /\ ~installed[Redis].Pinned
    /\ installed[Redis].Version = V("6", "3")
    /\ checked[1].version = <<"6", ".", "3", ".", "0">>
    /\ PHPVersionOf(installed[Redis]) = PatchVersion("0")
    /\ checked[1].phpVersion = PatchVersion("1")
    /\ checked[1].upgrade = <<>>
    /\ checked[1].upgradeWithPHP = checked[1].version
    /\ IsInstalled(Cli)

----------------------------------------------------------------------------
(* Two invocations at once.  Nothing is shared between two runs of the     *)
(* tool but the host: the files, the record files and the catalog.  Each   *)
(* has its own Manager, whose map is what LoadInstalled read when the run  *)
(* started.  The variables of the commands are those of the invocation     *)
(* that has the processor, others holds those of the other one.            *)

\* the variables of the invocation that has the processor
Running ==
    [installed |-> installed, packages |-> packages, reqIdx |-> reqIdx,
     pc |-> pc, allToInstall |-> allToInstall, seenPackages |-> seenPackages,
     installedSlots |-> installedSlots, log |-> log, pkg |-> pkg,
     stack |-> stack, resolved |-> resolved, result |-> result, ret |-> ret,
     force |-> force, caller |-> caller, toUpgrade |-> toUpgrade,
     instIdx |-> instIdx, outcomes |-> outcomes]

\* the other invocation gets the processor
Switch ==
    /\ others # <<>>
    /\ others' = Running
    /\ installed' = others.installed
    /\ packages' = others.packages
    /\ reqIdx' = others.reqIdx
    /\ pc' = others.pc
    /\ allToInstall' = others.allToInstall
    /\ seenPackages' = others.seenPackages
    /\ installedSlots' = others.installedSlots
    /\ log' = others.log
    /\ pkg' = others.pkg
    /\ stack' = others.stack
    /\ resolved' = others.resolved
    /\ result' = others.result
    /\ ret' = others.ret
    /\ force' = others.force
    /\ caller' = others.caller
    /\ toUpgrade' = others.toUpgrade
    /\ instIdx' = others.instIdx
    /\ outcomes' = others.outcomes
    /\ UNCHANGED <<available, engineVars, repoVars, checked, tui>>

\* the host: nothing installed, php8.5-common, or php8.5-common and php8.5-cli
RaceHosts == {{}, {Common}, {Common, Cli}}

RaceNames == {Common, Cli}

\* the catalogs the runs may have fetched: those of the versions the host
\* may hold
RaceCatalogs ==
    {c \in CommandCatalogs : \A i \in DOMAIN c : c[i].Name \in RaceNames}

\* `phm install <name>` has loaded the ledger and is about to plan, and
\* `phm remove <name>` has just started
InitTwoRuns ==
    /\ InitRepo
    /\ checked = <<>>
    /\ tui = NoTui
    /\ available \in RaceCatalogs
    /\ \E S \in RaceHosts :
           /\ db = [n \in S |-> <<HostRecord(n)>>]
           /\ disk = UNION {Range(HostRecord(n).InstalledFiles) : n \in S}
           /\ installed = [n \in S |-> HostRecord(n)]
    /\ placed = disk
    /\ failed = FALSE
    /\ last = NoCall
    /\ prev = Summary(NoCall)
    /\ ops = 0
    /\ caller = "cli"
    /\ force \in BOOLEAN
    /\ packages \in {<<n>> : n \in RaceNames}
    /\ pc = "loop"
    /\ reqIdx = 1
    /\ allToInstall = <<>>
    /\ seenPackages = {}
    /\ installedSlots = {}
    /\ log = <<>>
    /\ pkg = Package(<<>>, <<>>, <<>>)
    /\ stack = <<>>
    /\ resolved = {}
    /\ result = <<>>
    /\ ret = NoReturn
    /\ toUpgrade = {}
    /\ instIdx = 1
    /\ outcomes = <<>>
    /\ \E n \in RaceNames :
           others = [Running EXCEPT !.installed = Ledger({}), !.packages = <<n>>,
                                    !.pc = "load", !.force = FALSE]

\* the steps of the two commands; no requested name is missing from the
\* catalog and no installed package is older than the catalog
NextTwoRuns ==
    \/ Switch
    \/ RequestResolve
    \/ ResolveStep
    \/ ResolveFailed
    \/ ResolvePlanned
    \/ PlanningDone
    \/ NothingToInstall
    \/ PlanUpgrades
    \/ UpgradesDone
    \/ InstallSkip
    \/ InstallDownloadFailed
    \/ \E failAt \in FailPoints, save \in SaveOutcomes : InstallPlanned(failAt, save)
    \/ InstallDone
    \/ RemoveLoad
    \/ RemoveWarnNotInstalled
    \/ RemoveBlocked
    \/ RemoveRequested
    \/ RemoveDone

SpecTwoRuns == InitTwoRuns /\ [][NextTwoRuns]_vars

\* the two invocations
Runs == {Running, others}

\* a run of `phm install` that has installed name
HasInstalled(run, name) ==
    /\ run.pc = "done"
    /\ Outcome(name, "installed") \in Range(run.outcomes)

\* a run of `phm remove <name>` that has removed it: it has printed neither
\* "is not installed" nor "Cannot remove"
HasRemoved(run, name) ==
    /\ run.pc = "done"
    /\ run.allToInstall = <<>>
    /\ run.packages = <<name>>
    /\ run.reqIdx = 2
    /\ run.log = <<>>

\* the record files name a package whose dependency has no record file
DependencyGone ==
    \E n \in DOMAIN db :
        /\ db[n] # <<>>
        /\ \E i \in DOMAIN db[n][1].Depends :
               ParseDependency(db[n][1].Depends[i]).Name \notin DOMAIN db

\* C17: two invocations at once are not serialised.  Of `phm install
\* php8.5-cli` (without --force) and `phm remove php8.5-common` running at
\* once, where no call fails: whenever the one has installed php8.5-cli and
\* the other has removed php8.5-common, the host ends with php8.5-cli
\* installed, recorded with its file, and its dependency php8.5-common gone
C17_RunsAtOnceDisagree ==
    \A a, b \in Runs :
        (/\ ~failed
         /\ ~a.force
         /\ HasInstalled(a, Cli)
         /\ HasRemoved(b, Common))
        => /\ Cli \in DOMAIN db
           /\ db[Cli] # <<>>
           /\ Range(db[Cli][1].InstalledFiles) \subseteq disk
           /\ Common \notin DOMAIN db
           /\ DependencyGone

\* php8.5-common was installed when both runs started; the one has left
\* it out because it is installed and installed php8.5-cli, the other has
\* removed it because nothing needs it
C17_Witness ==
    /\ ~failed
    /\ Range(HostRecord(Common).InstalledFiles) \subseteq placed
    /\ \E a, b \in Runs :
           /\ ~a.force
           /\ HasInstalled(a, Cli)
           /\ Outcome(Common, "skipped") \in Range(a.outcomes)
           /\ HasRemoved(b, Common)
    /\ DependencyGone
    /\ Range(HostRecord(Common).InstalledFiles) \cap disk = {}

----------------------------------------------------------------------------
(* The repository: repo.go LoadIndex, loadLocalIndex, FetchIndex,          *)
(* DownloadPackage, the Config they read, and getRepo of the commands.     *)
(* The bytes of an index document are a sequence of tokens: "{", the       *)
(* token of what was generated, "}".                                       *)

IndexFileName == <<"index", ".", "json">>

\* Config.GetIndexPath
GetIndexPath(c) ==
    IF c.Offline \/ c.RepoPath # <<>>
    THEN Join(IF c.RepoPath = <<>> THEN <<"dist">> ELSE c.RepoPath, IndexFileName)
    ELSE Join(c.CacheDir, IndexFileName)

\* the catalogs the remote repository has published, by what their
\* document says was generated
Generations == {"a", "b"}

PublishedPackages(generated) ==
    IF generated = "a"
    THEN <<Package(Common, PatchVersion("0"), <<>>)>>
    ELSE <<Package(Common, PatchVersion("1"), <<>>),
           Package(Cli, PatchVersion("1"), <<Common>>)>>

\* the bytes of the document of a generation
Document(generated) == <<"{", generated, "}">>

\* pkg.Index, as parsed: {} is an Index of no platform
Index(generated, pkgs) == [Generated |-> generated, Packages |-> pkgs]

\* json.Unmarshal(data, &index): the bytes are a whole document or the
\* call is an error; bytes cut short and pages that are not JSON are errors
Unmarshal(data) ==
    IF data = <<"{", "}">>
    THEN [ok |-> TRUE, index |-> Index(<<>>, <<>>)]
    ELSE IF /\ Len(data) = 3
            /\ data[1] = "{"
            /\ data[2] \in Generations
            /\ data[3] = "}"
    THEN [ok |-> TRUE, index |-> Index(<<data[2]>>, PublishedPackages(data[2]))]
    ELSE [ok |-> FALSE, index |-> Index(<<>>, <<>>)]

\* what http.Get and io.ReadAll give: an error, a status that is not 200, a
\* body that cannot be read to its end, or the bytes of a body
Bodies == {Document(g) : g \in Generations} \cup {<<"{", "}">>, <<"<", "html", ">">>}

Responses ==
    {[kind |-> k, data |-> <<>>] : k \in {"transport", "status", "read"}}
        \cup {[kind |-> "body", data |-> d] : d \in Bodies}

\* os.MkdirAll and os.WriteFile of the cache: done, the directory cannot be
\* made, the file cannot be opened, or the write stops after the file was
\* truncated
CacheWrites == {"ok", "mkdir", "unopened", "cut"}

\* repo.go:92-96, the cache file after a successful fetch of data
CacheWritten(file, data, write) ==
    CASE write = "ok" -> <<data>>
      [] write = "cut" -> <<SubSeq(data, 1, Len(data) - 1)>>
      [] OTHER -> file

\* what a call leaves: its error ("" for none), Repository.index, the cache
\* file, and the bytes it has fetched and parsed
Left(err, idx, file, fetched) ==
    [err |-> err, index |-> idx, file |-> file, fetched |-> fetched]

\* a file that does not parse is passed over
loadLocalIndexLenient(idx, file) ==
    IF file = <<>> THEN Left("failed to read index", idx, file, <<>>)
    ELSE IF ~Unmarshal(file[1]).ok THEN Left("", idx, file, <<>>)
    ELSE Left("", <<Unmarshal(file[1]).index>>, file, <<>>)

\* Repository.loadLocalIndex(path), file being the file at path
loadLocalIndex(idx, file) ==
    IF file = <<>> THEN Left("failed to read index", idx, file, <<>>)
    ELSE IF ~Unmarshal(file[1]).ok THEN Left("failed to parse index", idx, file, <<>>)
    ELSE Left("", <<Unmarshal(file[1]).index>>, file, <<>>)

\* a FetchIndex that adds the fetched packages to the catalog in memory
FetchIndexPatching(c, idx, file, response, write) ==
    IF c.Offline THEN loadLocalIndex(idx, file)
    ELSE IF response.kind # "body" THEN Left("failed to fetch index", idx, file, <<>>)
    ELSE IF ~Unmarshal(response.data).ok
    THEN Left("failed to parse index", idx, file, <<>>)
    ELSE LET fetchedIndex == Unmarshal(response.data).index
         IN  Left("",
                  IF idx = <<>> THEN <<fetchedIndex>>
                  ELSE <<Index(fetchedIndex.Generated,
                               idx[1].Packages \o fetchedIndex.Packages)>>,
                  CacheWritten(file, response.data, write),
                  <<response.data>>)

\* Repository.FetchIndex
FetchIndex(c, idx, file, response, write) ==
    IF c.Offline THEN loadLocalIndex(idx, file)
    ELSE IF response.kind # "body" THEN Left("failed to fetch index", idx, file, <<>>)
    ELSE IF ~Unmarshal(response.data).ok
    THEN Left("failed to parse index", idx, file, <<>>)
    ELSE Left("", <<Unmarshal(response.data).index>>,
              CacheWritten(file, response.data, write), <<response.data>>)

\* Repository.LoadIndex
LoadIndex(c, idx, file, response, write) ==
    IF c.Offline \/ c.RepoPath # <<>> \/ HasPrefix(GetIndexPath(c), <<"/">>)
    THEN loadLocalIndex(idx, file)
    ELSE FetchIndex(c, idx, file, response, write)


\* the bytes of the latest successful fetch after a call that fetched
\* first and then, perhaps, once more
LatestFetch(before, first, second) ==
    IF second # <<>> THEN second ELSE IF first # <<>> THEN first ELSE before

\* getRepo (part_000:256-286): a new Repository; offline, LoadIndex; else
\* FetchIndex and, when it fails, LoadIndex
getRepo(response, write, response2, write2) ==
    LET c == IF cfg.RepoPath # <<>> THEN [cfg EXCEPT !.Offline = TRUE] ELSE cfg
        first == IF c.Offline THEN LoadIndex(c, <<>>, cacheFile, response, write)
                 ELSE FetchIndex(c, <<>>, cacheFile, response, write)
        fellBack == ~c.Offline /\ first.err # ""
        second == LoadIndex(c, first.index, first.file, response2, write2)
        final == IF fellBack THEN second ELSE first
    IN  /\ cfg' = c
        /\ index' = IF final.err = "" THEN final.index ELSE <<>>
        /\ cacheFile' = final.file
        /\ fetches' = LatestFetch(fetches, first.fetched,
                                  IF fellBack THEN second.fetched ELSE <<>>)
        /\ repoCall' = [op |-> "getRepo", err |-> final.err,
                        fetchErr |-> IF c.Offline THEN "" ELSE first.err,
                        fellBack |-> fellBack,
                        fetched |-> LatestFetch(<<>>, first.fetched,
                                                IF fellBack THEN second.fetched
                                                ELSE <<>>)]
        /\ UNCHANGED <<available, installed, commandVars, resolverVars, engineVars,
                       runVars, pkgCache, checked, others, tui>>

\* r.FetchIndex() on the repository of the run
Fetch(response, write) ==
    LET left == FetchIndex(cfg, index, cacheFile, response, write)
    IN  /\ repoCall.op # "none"
        /\ index' = left.index
        /\ cacheFile' = left.file
        /\ fetches' = LatestFetch(fetches, left.fetched, <<>>)
        /\ repoCall' = [op |-> "FetchIndex", err |-> left.err,
                        data |-> IF cfg.Offline /\ left.err = "" THEN cacheFile
                                 ELSE left.fetched,
                        write |-> IF left.fetched = <<>> THEN "none" ELSE write]
        /\ UNCHANGED <<available, installed, commandVars, resolverVars, engineVars,
                       runVars, cfg, pkgCache, checked, others, tui>>

\* r.LoadIndex() on the repository of the run
Load(response, write) ==
    LET left == LoadIndex(cfg, index, cacheFile, response, write)
    IN  /\ repoCall.op # "none"
        /\ index' = left.index
        /\ cacheFile' = left.file
        /\ fetches' = LatestFetch(fetches, left.fetched, <<>>)
        /\ repoCall' = [op |-> "LoadIndex", err |-> left.err]
        /\ UNCHANGED <<available, installed, commandVars, resolverVars, engineVars,
                       runVars, cfg, pkgCache, checked, others, tui>>

\* the cache file name of a package (the model's Package has neither
\* revision nor platform)
Filename(p) == p.Name \o <<"_">> \o p.Version \o <<".", "tar", ".", "zst">>

\* Config.GetPackagePath
GetPackagePath(c, filename) ==
    IF c.Offline \/ c.RepoPath # <<>>
    THEN Join(IF c.RepoPath = <<>> THEN <<"dist">> ELSE c.RepoPath, filename)
    ELSE Join(Join(c.CacheDir, <<"packages">>), filename)

\* how a download ends: done, or the error of os.MkdirAll, http.Get, the
\* status, os.Create or io.Copy
Transfers == {"ok", "mkdir", "transport", "status", "create", "copy"}

\* the partial file of a failed copy is left where it is
AfterFailedCopyKept(files, name, partial) == Put(files, name, partial)

\* repo.go:193-219, os.Create, io.Copy fails, os.Remove(cachePath)
AfterFailedCopy(files, name, partial) == Drop(Put(files, name, partial), name)

\* Repository.DownloadPackage(p); cut is how much of the archive io.Copy
\* wrote before it failed
DownloadPackage(p, transfer, cut) ==
    LET name == Filename(p)
        path == GetPackagePath(cfg, name)
        local == cfg.Offline \/ cfg.RepoPath # <<>>
        cached == name \in DOMAIN pkgCache
        err == IF local THEN (IF cached THEN "" ELSE "package not found")
               ELSE IF cached \/ transfer = "ok" THEN ""
               ELSE transfer
    IN  /\ repoCall.op # "none"
        /\ cut \in 0..(Len(ArchiveOf(p)) - 1)
        /\ pkgCache' =
               IF local \/ cached THEN pkgCache
               ELSE CASE transfer = "ok" -> Put(pkgCache, name, ArchiveOf(p))
                      [] transfer = "copy" ->
                             AfterFailedCopy(pkgCache, name,
                                             SubSeq(ArchiveOf(p), 1, cut))
                      [] OTHER -> pkgCache
        /\ repoCall' = [op |-> "DownloadPackage", err |-> err, name |-> name,
                        path |-> IF err = "" THEN path ELSE <<>>,
                        requested |-> ~local /\ ~cached /\ transfer # "mkdir"]
        /\ UNCHANGED <<available, installed, commandVars, resolverVars, engineVars,
                       runVars, cfg, index, cacheFile, fetches, checked, others, tui>>

\* the configurations: the default, no home directory, --offline, --repo
Configs ==
    {DefaultConfig,
     [DefaultConfig EXCEPT !.CacheDir = Join(<<".cache">>, <<"phm">>)],
     [DefaultConfig EXCEPT !.Offline = TRUE],
     [DefaultConfig EXCEPT !.RepoPath = <<"/", "repo">>]}

\* the packages asked of DownloadPackage
Downloads == {Package(Common, PatchVersion("1"), <<>>),
              Package(Cli, PatchVersion("1"), <<Common>>)}

\* a host whose cache directory is empty; a local repository holds an index
\* or none, and php8.5-common or nothing
InitRepository ==
    /\ InitEngine
    /\ InitRun
    /\ available = <<>>
    /\ installed = Ledger({})
    /\ packages = <<>>
    /\ reqIdx = 1
    /\ pc = "loop"
    /\ allToInstall = <<>>
    /\ seenPackages = {}
    /\ installedSlots = {}
    /\ log = <<>>
    /\ pkg = Package(<<>>, <<>>, <<>>)
    /\ stack = <<>>
    /\ resolved = {}
    /\ result = <<>>
    /\ ret = NoReturn
    /\ checked = <<>>
    /\ others = <<>>
    /\ tui = NoTui
    /\ index = <<>>
    /\ fetches = <<>>
    /\ repoCall = NoRepoCall
    /\ cfg \in Configs
    /\ LET local == cfg.Offline \/ cfg.RepoPath # <<>>
       IN  /\ cacheFile \in (IF local THEN {<<>>, <<Document("a")>>} ELSE {<<>>})
           /\ pkgCache \in
                  (IF local
                   THEN {<<>>, Put(<<>>, Filename(Package(Common, PatchVersion("1"), <<>>)),
                                   ArchiveOf(Package(Common, PatchVersion("1"), <<>>)))}
                   ELSE {<<>>})

\* LoadIndex fetches: the index path of the configuration is not a local one
LoadFetches ==
    ~(cfg.Offline \/ cfg.RepoPath # <<>> \/ HasPrefix(GetIndexPath(cfg), <<"/">>))

\* a response FetchIndex makes an index of
Fetched(response) == response.kind = "body" /\ Unmarshal(response.data).ok

\* the cache is written only after such a response
WritesAfter(response) == IF Fetched(response) THEN CacheWrites ELSE {"ok"}

\* the second response is read only where LoadIndex fetches, after a first
\* fetch that failed
NextRepository ==
    \/ \E response \in Responses :
           \E response2 \in (IF LoadFetches /\ ~Fetched(response) THEN Responses
                              ELSE {response}) :
               \E write \in WritesAfter(response) :
                   \E write2 \in (IF LoadFetches /\ ~Fetched(response)
                                   THEN WritesAfter(response2) ELSE {write}) :
                       getRepo(response, write, response2, write2)
    \/ \E response \in Responses :
           \E write \in WritesAfter(response) : Fetch(response, write)
    \/ \E response \in Responses :
           \E write \in WritesAfter(response) : Load(response, write)
    \/ \E p \in Downloads, transfer \in Transfers, cut \in 0..1 :
           DownloadPackage(p, transfer, cut)

SpecRepository == InitRepository /\ [][NextRepository]_vars


\* a step of getRepo whose FetchIndex failed
FetchFailed == repoCall'.op = "getRepo" /\ repoCall'.fetchErr # ""

\* the file can be read and parsed
Parses(file) == file # <<>> /\ Unmarshal(file[1]).ok

FetchCalled == repoCall'.op = "FetchIndex"

\* C19 as stated: a successful FetchIndex replaces the catalog in memory as
\* a whole with the fetched document and makes the cache file hold exactly
\* the fetched bytes; a failed FetchIndex leaves the catalog in memory and
\* the cache file as they were
C19_FetchReplacesBoth ==
    [][FetchCalled =>
          IF repoCall'.err = ""
          THEN /\ index' = <<Unmarshal(repoCall'.data[1]).index>>
               /\ cacheFile' = repoCall'.data
          ELSE /\ index' = index
               /\ cacheFile' = cacheFile]_vars

\* C19: a successful FetchIndex replaces the catalog in memory as a whole
\* with the fetched document; it makes the cache file hold exactly the
\* fetched bytes unless the write of the cache fails, which leaves the cache
\* file as it was (the directory cannot be made, the file cannot be opened)
\* or cut short.  A failed FetchIndex leaves both as they were
C19_FetchReplacesIndex ==
    [][FetchCalled =>
          IF repoCall'.err = ""
          THEN /\ index' = <<Unmarshal(repoCall'.data[1]).index>>
               /\ repoCall'.write \in {"ok", "none"} => cacheFile' = repoCall'.data
               /\ repoCall'.write \in {"mkdir", "unopened"} => cacheFile' = cacheFile
               /\ repoCall'.write = "cut" =>
                      /\ cacheFile' # <<>>
                      /\ Len(cacheFile'[1]) < Len(repoCall'.data[1])
                      /\ HasPrefix(repoCall'.data[1], cacheFile'[1])
                      /\ ~Parses(cacheFile')
          ELSE /\ index' = index
               /\ cacheFile' = cacheFile
               /\ fetches' = fetches]_vars

\* b was fetched and is the catalog in memory; the cache file could not be
\* written and holds a
C19_Witness ==
    /\ repoCall.op = "FetchIndex"
    /\ repoCall.err = ""
    /\ repoCall.data = <<Document("b")>>
    /\ repoCall.write \in {"mkdir", "unopened"}
    /\ index = <<Index(<<"b">>, PublishedPackages("b"))>>
    /\ cacheFile = <<Document("a")>>
    /\ fetches = <<Document("b")>>


\* a step of DownloadPackage
DownloadCalled == repoCall'.op = "DownloadPackage"

\* the file is the whole archive of the package it is named after
WholeArchive(files, name) ==
    \E p \in Downloads : name = Filename(p) /\ files[name] = ArchiveOf(p)

----------------------------------------------------------------------------
(* The entry a name resolves to *)

\* no entry of the catalog of the name of p compares greater than p
Newest(p) ==
    \A i \in EntriesNamed(available, p.Name) :
        compareVersions(available[i].Version, p.Version) <= 0

\* the names of the catalog and one it does not hold
LookedUp == {available[i].Name : i \in DOMAIN available} \cup {PinnedCli}

\* C21: whenever a package name is resolved to an entry of the catalog, by
\* GetPackage or as a dependency inside ResolveDependencies (the frames
\* above the first of the stack), the entry is one of that name such that no
\* other entry of the name compares greater in version; GetPackage returns
\* none when no entry has the name
C21_ResolvesToNewest ==
    /\ \A name \in LookedUp :
           IF EntriesNamed(available, name) = {} THEN GetPackage(name) = <<>>
           ELSE /\ GetPackage(name) # <<>>
                /\ GetPackage(name)[1].Name = name
                /\ Newest(GetPackage(name)[1])
    /\ \A k \in 2..Len(stack) :
           /\ stack[k].p \in Range(available)
           /\ Newest(stack[k].p)

----------------------------------------------------------------------------
(* What LoadInstalled finds *)

\* a step that is a call of LoadInstalled
LoadCalled == last'.op = "load" /\ ops' = ops + 1

\* the record files that parse
ParsedRecords == {k \in DOMAIN db : db[k] # <<>>}

\* the call c installed its package and neither of the calls after it, of
\* which ended tells which end the record, removed or replaced it
Kept(c, after, ended) ==
    /\ c.op = "install" /\ c.ok
    /\ \A d \in after :
           ~(d.name = c.name /\ (d.op = "remove" \/ (d.op = "install" /\ ended[d])))

\* the manager of the next run holds the package of the call c as the
\* manager that installed it did, with the files the call recorded
Found(c) ==
    /\ c.name \in DOMAIN installed'
    /\ c.name \in DOMAIN installed
    /\ installed'[c.name].Name = c.name
    /\ installed'[c.name].InstalledFiles = c.files
    /\ installed'[c.name].InstallSlot = installed[c.name].InstallSlot
    /\ installed'[c.name].Pinned = installed[c.name].Pinned

\* LoadInstalled returns no error and indexes exactly the record files that
\* parse
IndexesParsed ==
    /\ last'.ok
    /\ DOMAIN installed' = ParsedRecords
    /\ \A k \in ParsedRecords : installed'[k] = db[k][1]

\* the slot and the flag of the record are those of the options of the call
AsOptions(c) ==
    /\ installed'[c.name].Pinned = Options[c.opts].Pinned
    /\ Options[c.opts].InstallSlot # <<>> =>
           installed'[c.name].InstallSlot = Options[c.opts].InstallSlot

----------------------------------------------------------------------------
(* The order of versions: manager.go compareVersions *)

\* version strings: empty, of one to three components, with a component of
\* two digits, a component that is no number, a signed component, an empty
\* component
ComparedVersions ==
    {<<>>, <<"1">>, V("1", "0"), V("1", "9"), V("1", "10"), V("1", "x"),
     <<"1", ".", "9", ".", "0">>, <<"1", ".", "9", ".", "1">>, <<"2">>,
     <<"1", ".">>, V("1", "-") \o <<"1">>, <<"rc">>}

\* a caller compares three versions with each other
AskCompare(a, b, c) ==
    /\ checked = <<>>
    /\ checked' = <<[a |-> a, b |-> b, c |-> c,
                     aa |-> compareVersions(a, a),
                     ab |-> compareVersions(a, b),
                     ba |-> compareVersions(b, a),
                     bc |-> compareVersions(b, c),
                     ac |-> compareVersions(a, c)]>>
    /\ UNCHANGED <<available, installed, commandVars, resolverVars, engineVars,
                   runVars, repoVars, others, tui>>

InitVersions == InitCommand({<<>>}, {Ledger({})}, {<<>>})

NextVersions == \E a, b, c \in ComparedVersions : AskCompare(a, b, c)

SpecVersions == InitVersions /\ [][NextVersions]_vars

\* the components of a version as integers, padded with zeros to n
\* components, a component that is no number read as zero
Components(v, n) == [i \in 1..n |-> VersionNum(SplitDots(v), i)]

\* the order of two versions by their first component that differs
ByComponents(a, b) ==
    LET n == IF Len(SplitDots(a)) > Len(SplitDots(b))
             THEN Len(SplitDots(a)) ELSE Len(SplitDots(b))
        differ == {i \in 1..n : Components(a, n)[i] # Components(b, n)[i]}
    IN  IF differ = {} THEN 0
        ELSE IF Components(a, n)[Min(differ)] < Components(b, n)[Min(differ)]
        THEN -1 ELSE 1

\* C23: compareVersions(a, b) is the comparison of the dot-separated
\* components of a and b as integers, the shorter padded with zeros and the
\* components that are no numbers read as zero; exactly one of a<b, a=b,
\* a>b holds, compareVersions(a, a) = 0, compareVersions(a, b) =
\* -compareVersions(b, a), and a<b and b<c imply a<c
C23_ComparesComponents ==
    \A i \in DOMAIN checked :
        LET q == checked[i]
        IN  "ab" \in DOMAIN q =>
                /\ q.ab = ByComponents(q.a, q.b)
                /\ q.bc = ByComponents(q.b, q.c)
                /\ q.ab \in {-1, 0, 1}
                /\ q.aa = 0
                /\ q.ab = 0 - q.ba
                /\ (q.ab < 0 /\ q.bc < 0) => q.ac < 0
                /\ (q.ab = 0 /\ q.bc = 0) => q.ac = 0

\* 1.9 < 1.10 < 2: the components are compared as numbers
C23_Witness ==
    /\ checked # <<>>
    /\ "ab" \in DOMAIN checked[1]
    /\ checked[1].a = V("1", "9")
    /\ checked[1].b = V("1", "10")
    /\ checked[1].c = <<"2">>
    /\ checked[1].ab = -1
    /\ checked[1].ac = -1

----------------------------------------------------------------------------
(* Package names: part_002 ParsePackageName *)

NameNumbers == {"5", "8", "10"}

\* suffixes: a word, words joined by a dash, one that begins like a version,
\* a single dash, and two that hold a line break
NameSuffixes ==
    {<<"cli">>, <<"redis", "-", "server">>, <<"1", ".", "2", "-", "x">>,
     <<"-">>, <<"cli", LineBreak>>, <<LineBreak>>}

PatchName(M, m, p, s) == <<"php", M, ".", m, ".", p, "-">> \o s
MinorName(M, m, s) == <<"php", M, ".", m, "-">> \o s

\* names of neither form
OtherNames ==
    {<<>>, <<"redis", "-", "server">>, <<"php">>, <<"php", "8">>,
     <<"php", "8", ".", "5">>, <<"php", "8", ".", "5", "-">>,
     <<"php", "8", ".", "5", ".", "1">>, <<"php", "8", ".", "5", ".", "1", "-">>,
     <<"php", "-", "cli">>, <<"php", "8", "-", "cli">>,
     <<"php", "8", ".", "x", "-", "cli">>,
     <<"php", "8", ".", "5", ".", "1", ".", "2", "-", "cli">>,
     <<"lib", "php", "8", ".", "5", "-", "cli">>}

\* the names a caller parses, with the way each is built
ParsedNames ==
    {[form |-> "patch", M |-> M, m |-> m, p |-> p, s |-> s,
      name |-> PatchName(M, m, p, s)] :
        M \in NameNumbers, m \in NameNumbers, p \in NameNumbers, s \in NameSuffixes}
    \cup {[form |-> "minor", M |-> M, m |-> m, p |-> <<>>, s |-> s,
           name |-> MinorName(M, m, s)] :
        M \in NameNumbers, m \in NameNumbers, s \in NameSuffixes}
    \cup {[form |-> "other", M |-> <<>>, m |-> <<>>, p |-> <<>>, s |-> <<>>,
           name |-> n] : n \in OtherNames}

\* a caller parses a name and takes the install slot and the canonical name
AskName(q) ==
    /\ checked = <<>>
    /\ checked' =
           <<q @@
             [info |-> ParsePackageName(q.name),
              slot |-> IF ParsePackageName(q.name) = <<>> THEN <<>>
                       ELSE GetInstallSlot(ParsePackageName(q.name)[1]),
              canonical |-> IF ParsePackageName(q.name) = <<>> THEN <<>>
                            ELSE GetCanonicalName(ParsePackageName(q.name)[1])]>>
    /\ UNCHANGED <<available, installed, commandVars, resolverVars, engineVars,
                   runVars, repoVars, others, tui>>

InitNames == InitCommand({<<>>}, {Ledger({})}, {<<>>})

NextNames == \E q \in ParsedNames : AskName(q)

SpecNames == InitNames /\ [][NextNames]_vars

\* what the name of q is to yield: the minor version M.m, the patch version
\* M.m.p when pinned, the suffix, the install slot, the canonical name
Yields(q, c) ==
    /\ c.info = <<[MinorVersion |-> <<q.M, ".", q.m>>,
                   PatchVersion |-> IF q.form = "patch"
                                    THEN <<q.M, ".", q.m, ".", q.p>> ELSE <<>>,
                   IsPinned     |-> q.form = "patch",
                   PackageType  |-> q.s]>>
    /\ c.slot = (IF q.form = "patch" THEN <<q.M, ".", q.m, ".", q.p>>
                 ELSE <<q.M, ".", q.m>>)
    /\ c.canonical = MinorName(q.M, q.m, q.s)

\* C24 as stated: for all numbers M, m, p and every non-empty suffix s,
\* phpM.m.p-s yields minor M.m, patch M.m.p, pinned, suffix s, install slot
\* M.m.p; phpM.m-s yields minor M.m, no patch, not pinned, suffix s, install
\* slot M.m; both have the canonical name phpM.m-s; a name of neither form
\* yields none
C24_ParsesEverySuffix ==
    \A i \in DOMAIN checked :
        LET c == checked[i]
        IN  "info" \in DOMAIN c =>
                IF c.form = "other" THEN c.info = <<>> ELSE Yields(c, c)

\* C24, amended: the same for every non-empty suffix s without a line break;
\* a name of neither form, and one whose suffix holds a line break, yields
\* none
C24_ParsesSuffixOfOneLine ==
    \A i \in DOMAIN checked :
        LET c == checked[i]
        IN  "info" \in DOMAIN c =>
                IF c.form = "other" \/ LineBreak \in Range(c.s)
                THEN c.info = <<>>
                ELSE Yields(c, c)

\* php8.10.8-redis-server parsed: pinned, into the slot 8.10.8, under the
\* canonical name php8.10-redis-server
C24_Witness ==
    /\ checked # <<>>
    /\ "info" \in DOMAIN checked[1]
    /\ checked[1].name = PatchName("8", "10", "8", <<"redis", "-", "server">>)
    /\ checked[1].info # <<>>
    /\ checked[1].info[1].IsPinned
    /\ checked[1].slot = <<"8", ".", "10", ".", "8">>
    /\ checked[1].canonical = MinorName("8", "10", <<"redis", "-", "server">>)

----------------------------------------------------------------------------
(* The dependencies of a pinned installation *)

\* part_000:353-360, the name under which a package is installed into a
\* pinned slot
PinnedName(slot, name) ==
    IF ParsePackageName(name) = <<>> THEN name
    ELSE <<"php">> \o slot \o <<"-">> \o ParsePackageName(name)[1].PackageType

\* runInstall has returned and has printed no error
CompletedWithoutErrors ==
    /\ pc = "done"
    /\ caller = "cli"
    /\ log = <<>>
    /\ ~failed
    /\ \A i \in DOMAIN outcomes : outcomes[i].result \in {"installed", "skipped"}

\* the ledger holds the name in the slot, pinned
HeldPinned(name, slot) ==
    /\ name \in DOMAIN installed
    /\ installed[name].InstallSlot = slot
    /\ installed[name].Pinned

\* C25: when the install command has installed a pinned package and has
\* completed without errors, the pinned slot holds a ledger record for the
\* package and, under its pinned name, for every one of its dependencies,
\* whatever tracked packages were installed before
C25_PinnedSlotHoldsDependencies ==
    CompletedWithoutErrors =>
        \A i \in DOMAIN allToInstall :
            LET req == allToInstall[i]
            IN  (/\ req.IsPinned
                 /\ Outcome(req.RequestedName, "installed") \in Range(outcomes))
                => /\ HeldPinned(req.RequestedName, req.InstallSlot)
                   /\ \A k \in DOMAIN req.Package.Depends :
                          HeldPinned(PinnedName(req.InstallSlot,
                                         ParseDependency(req.Package.Depends[k]).Name),
                                     req.InstallSlot)

----------------------------------------------------------------------------
(* Pinned requests and the version of the catalog *)

\* name is a pinned request whose catalog entry is carried at other versions
\* only
Mismatched(name) ==
    /\ ParsePackageName(name) # <<>>
    /\ ParsePackageName(name)[1].IsPinned
    /\ LET canonical == GetCanonicalName(ParsePackageName(name)[1])
       IN  /\ EntriesNamed(available, canonical) # {}
           /\ \A i \in EntriesNamed(available, canonical) :
                  available[i].Version # ParsePackageName(name)[1].PatchVersion

\* the requests the planning loop of runInstall is done with
Processed == {i \in DOMAIN packages : caller = "cli" /\ i < reqIdx}

\* nothing is planned or recorded for the name and it is reported not found
Rejected(name) ==
    /\ [error |-> "Package not found", name |-> name] \in Range(log)
    /\ \A k \in DOMAIN allToInstall : allToInstall[k].RequestedName # name
    /\ name \notin DOMAIN installed
    /\ name \notin DOMAIN db

\* the pinned requests of the plan carry the version they name
PinnedAsRequested ==
    \A k \in DOMAIN allToInstall :
        LET req == allToInstall[k]
        IN  (req.IsPinned /\ req.RequestedName \in Range(packages)) =>
                req.Package.Version = ParsePackageName(req.RequestedName)[1].PatchVersion

\* C26 as stated: a pinned request phpM.m.p-s is accepted only when the
\* catalog entry phpM.m-s has version M.m.p; for any other catalog version
\* the install command installs nothing for the request, creates no ledger
\* record and reports the package as not found
C26_RejectsOtherVersions ==
    /\ caller = "cli" => PinnedAsRequested
    /\ \A i \in Processed : Mismatched(packages[i]) => Rejected(packages[i])

\* C26, amended: the same, unless the catalog carries an entry named
\* phpM.m.p-s itself; the install command then plans that entry under that
\* name, not pinned, and reports nothing
C26_RejectsUnlessNamedSo ==
    /\ caller = "cli" => PinnedAsRequested
    /\ \A i \in Processed :
           Mismatched(packages[i]) =>
               IF GetPackage(packages[i]) = <<>>
               THEN Rejected(packages[i])
               ELSE /\ [error |-> "Package not found", name |-> packages[i]]
                           \notin Range(log)
                    /\ \A k \in DOMAIN allToInstall :
                           allToInstall[k].RequestedName = packages[i] =>
                               /\ allToInstall[k].CanonicalName = packages[i]
                               /\ ~allToInstall[k].IsPinned
                               /\ allToInstall[k].Package = GetPackage(packages[i])[1]
                    /\ packages[i] \in DOMAIN installed =>
                           ~installed[packages[i]].Pinned

\* php8.5.0-cli asked of a catalog that carries php8.5-cli 8.5.1 only: the
\* command has ended, has reported it not found and has recorded nothing
C26_Witness ==
    /\ pc = "done"
    /\ caller = "cli"
    /\ packages = <<OldCli>>
    /\ Mismatched(OldCli)
    /\ GetPackage(OldCli) = <<>>
    /\ log = <<[error |-> "Package not found", name |-> OldCli]>>
    /\ OldCli \notin DOMAIN installed

----------------------------------------------------------------------------
(* The dependencies of what the install command installed *)

\* the ledger holds the package a dependency string names, under its own
\* name or under its name in the slot, at a version the constraint accepts
DependencyHeld(dep, slot) ==
    LET d == ParseDependency(dep)
    IN  \E n \in {d.Name, PinnedName(slot, d.Name)} \cap DOMAIN installed :
            versionSatisfies(installed[n].Version, d.Constraint, d.Version)

\* C28: after the install command has completed without a download or an
\* installation error, every dependency constraint of every package it
\* installed is satisfied by the version of the named package in the ledger,
\* also when --force is not given
C28_InstalledDependenciesSatisfied ==
    CompletedWithoutErrors =>
        \A i \in DOMAIN outcomes :
            (outcomes[i].result = "installed" /\ outcomes[i].name \in DOMAIN installed)
            => \A k \in DOMAIN installed[outcomes[i].name].Depends :
                   DependencyHeld(installed[outcomes[i].name].Depends[k],
                                  installed[outcomes[i].name].InstallSlot)

----------------------------------------------------------------------------
(* The files of the other records after a removal *)

\* C29: Remove(name) deletes only files that no other installed record
\* lists: every file of the InstalledFiles of every other ledger record that
\* was on disk is still on disk after it, also when a pinned and a tracked
\* installation of one catalog entry both recorded a path outside their slot
\* directories
C29_RemoveKeepsFilesOfOthers ==
    [][RemoveCalled =>
           \A n \in DOMAIN installed' :
               \A k \in DOMAIN installed'[n].InstalledFiles :
                   installed'[n].InstalledFiles[k] \in disk =>
                       installed'[n].InstalledFiles[k] \in disk']_vars

----------------------------------------------------------------------------
(* The TUI: part_004 Model.Update, handleKey, goBack, handleEnter *)

\* The model starts when dataLoadedMsg has been handled.  tui holds the
\* fields of Model that decide a step: step, cursor, menuAction,
\* selectedSAPIs, selectedFPMIdx and the lengths of availableVersions,
\* extOptions, installedVersions and fpmStatuses; quit is whether tea.Quit
\* has been returned; inflight holds the background commands whose done
\* message Update has not handled yet, started counts those started.  The
\* message, the logs, the selected extensions, the spinner and the window
\* size decide no step and are left out.

\* the entries a list of the TUI may have, and the background commands a run
\* of the TUI may start
MaxListed == 1
MaxCommands == 2

Operations == {"install", "upgrade", "remove"}

\* the steps of the operations
OperationSteps == {"Installing", "Upgrading", "Removing"}

\* NewModel, part_004:98-137, with the lists loadData and loadVersions load
InitialTui(nInstalled, nFpm) ==
    [step |-> "MainMenu", cursor |-> 0, menuAction |-> 0, quit |-> FALSE,
     selectedSAPIs |-> {0}, selectedFPMIdx |-> 0,
     nAvailable |-> MaxListed, nExt |-> MaxListed,
     nInstalled |-> nInstalled, nFpm |-> nFpm,
     inflight |-> <<>>, started |-> 0]

\* the TUI takes a step; the engine is that of the background commands
TuiStep(next) ==
    /\ tui # NoTui
    /\ ~tui.quit
    /\ tui' = next
    /\ UNCHANGED <<available, installed, commandVars, resolverVars, engineVars,
                   runVars, repoVars, checked, others>>

\* a handler returns the command: tea.Batch(m.spinner.Tick, m.doInstall) and
\* the like; the program runs it and sends its message when it is done
Started(m, command) ==
    [m EXCEPT !.inflight = Append(@, command), !.started = @ + 1]

Largest(a, b) == IF a > b THEN a ELSE b

\* Model.getMaxCursor, part_004:565-587
getMaxCursor(m) ==
    CASE m.step = "MainMenu" -> 5
      [] m.step = "SelectVersion" -> Largest(0, m.nAvailable - 1)
      [] m.step = "SelectSAPIs" -> 2
      [] m.step \in {"SelectExtensions", "ModifyExtensions"} -> Largest(0, m.nExt - 1)
      [] m.step \in {"ConfirmInstall", "ConfirmRemove"} -> 1
      [] m.step = "SelectInstalledVersion" -> Largest(0, m.nInstalled - 1)
      [] m.step = "ModifyMenu" -> 1
      [] m.step = "FPMMenu" -> Largest(0, m.nFpm - 1)
      [] m.step = "FPMAction" -> 5
      [] OTHER -> 0

\* Model.goBack, part_004:290-330
goBack(m) ==
    CASE m.step \in {"SelectVersion", "SelectInstalledVersion", "FPMMenu", "Done"} ->
             [m EXCEPT !.step = "MainMenu", !.cursor = 0]
      [] m.step = "SelectSAPIs" -> [m EXCEPT !.step = "SelectVersion", !.cursor = 0]
      [] m.step = "SelectExtensions" -> [m EXCEPT !.step = "SelectSAPIs", !.cursor = 0]
      [] m.step = "ConfirmInstall" -> [m EXCEPT !.step = "SelectExtensions", !.cursor = 0]
      [] m.step \in {"ModifyMenu", "ConfirmRemove"} ->
             [m EXCEPT !.step = "SelectInstalledVersion", !.cursor = 0]
      [] m.step = "ModifyExtensions" -> [m EXCEPT !.step = "ModifyMenu", !.cursor = 0]
      [] m.step = "FPMAction" -> [m EXCEPT !.step = "FPMMenu", !.cursor = 0]
      [] OTHER -> m

\* Model.handleMainMenu, part_004:364-411; listed is what
\* loadInstalledVersions or loadFPMStatuses finds, sudo what EnsureSudo
\* answers
handleMainMenu(m, listed, sudo) ==
    LET chosen == [m EXCEPT !.menuAction = m.cursor]
    IN  CASE m.cursor = 0 ->
                 [chosen EXCEPT !.step = "SelectVersion", !.cursor = 0,
                                !.selectedSAPIs = {0}]
          [] m.cursor \in {1, 4} ->
                 IF listed = 0 THEN [chosen EXCEPT !.nInstalled = listed]
                 ELSE [chosen EXCEPT !.nInstalled = listed,
                                     !.step = "SelectInstalledVersion", !.cursor = 0]
          [] m.cursor = 2 ->
                 IF listed = 0 \/ ~sudo THEN [chosen EXCEPT !.nFpm = listed]
                 ELSE [chosen EXCEPT !.nFpm = listed, !.step = "FPMMenu", !.cursor = 0]
          [] m.cursor = 3 -> Started([chosen EXCEPT !.step = "Upgrading"], "upgrade")
          [] OTHER -> [chosen EXCEPT !.quit = TRUE]

\* Model.handleFPMAction, part_004:507-531
handleFPMAction(m) ==
    IF m.selectedFPMIdx >= m.nFpm THEN m
    ELSE IF m.cursor \in 0..4 THEN Started(m, "fpm")
    ELSE IF m.cursor = 5 THEN [m EXCEPT !.step = "FPMMenu", !.cursor = 0]
    ELSE m

\* Model.handleEnter, part_004:332-362, and the handlers of the steps,
\* part_004:413-505
handleEnter(m, listed, sudo) ==
    CASE m.step = "MainMenu" -> handleMainMenu(m, listed, sudo)
      [] m.step = "SelectVersion" ->
             IF m.cursor < m.nAvailable
             THEN [m EXCEPT !.step = "SelectSAPIs", !.cursor = 0] ELSE m
      [] m.step = "SelectSAPIs" ->
             IF m.selectedSAPIs = {} THEN m
             ELSE [m EXCEPT !.step = "SelectExtensions", !.cursor = 0]
      [] m.step = "SelectExtensions" ->
             [m EXCEPT !.step = "ConfirmInstall", !.cursor = 0]
      [] m.step = "ConfirmInstall" ->
             IF m.cursor = 0 THEN Started([m EXCEPT !.step = "Installing"], "install")
             ELSE [m EXCEPT !.step = "SelectExtensions", !.cursor = 0]
      [] m.step = "SelectInstalledVersion" ->
             IF m.cursor >= m.nInstalled THEN m
             ELSE IF m.menuAction = 4
             THEN [m EXCEPT !.step = "ConfirmRemove", !.cursor = 0]
             ELSE [m EXCEPT !.step = "ModifyMenu", !.cursor = 0]
      [] m.step = "ModifyMenu" ->
             IF m.cursor = 0 THEN [m EXCEPT !.step = "ModifyExtensions", !.cursor = 0]
             ELSE IF m.cursor = 1 THEN [m EXCEPT !.step = "MainMenu", !.cursor = 0]
             ELSE m
      [] m.step = "ConfirmRemove" ->
             IF m.cursor = 0 THEN Started([m EXCEPT !.step = "Removing"], "remove")
             ELSE [m EXCEPT !.step = "SelectInstalledVersion", !.cursor = 0]
      [] m.step = "FPMMenu" ->
             IF m.cursor < m.nFpm
             THEN [m EXCEPT !.selectedFPMIdx = m.cursor, !.step = "FPMAction",
                            !.cursor = 0]
             ELSE m
      [] m.step = "FPMAction" -> handleFPMAction(m)
      [] m.step = "Done" -> [m EXCEPT !.step = "MainMenu", !.cursor = 0]
      [] OTHER -> m

\* handleKey, part_004:249-253: "ctrl+c", "q"
KeyQuit ==
    /\ tui # NoTui
    /\ TuiStep(IF tui.step \in OperationSteps THEN tui
               ELSE [tui EXCEPT !.quit = TRUE])

\* handleKey, part_004:255-256: "esc"
KeyEsc ==
    /\ tui # NoTui
    /\ TuiStep(goBack(tui))

\* handleKey, part_004:258-261: "up", "k"
KeyUp ==
    /\ tui # NoTui
    /\ TuiStep(IF tui.cursor > 0 THEN [tui EXCEPT !.cursor = @ - 1] ELSE tui)

\* handleKey, part_004:263-264: "down", "j"
KeyDown ==
    /\ tui # NoTui
    /\ TuiStep([tui EXCEPT !.cursor = IF tui.cursor + 1 < getMaxCursor(tui)
                                      THEN tui.cursor + 1 ELSE getMaxCursor(tui)])

\* handleKey, part_004:266-267: " ", Model.toggleSelection
KeySpace ==
    /\ tui # NoTui
    /\ TuiStep(IF tui.step = "SelectSAPIs"
               THEN [tui EXCEPT !.selectedSAPIs =
                         IF tui.cursor \in @ THEN @ \ {tui.cursor}
                         ELSE @ \cup {tui.cursor}]
               ELSE tui)

\* handleKey, part_004:269-270: "enter"; a command is started while the run
\* may start one
KeyEnter(listed, sudo) ==
    /\ tui # NoTui
    /\ handleEnter(tui, listed, sudo).started <= MaxCommands
    /\ TuiStep(handleEnter(tui, listed, sudo))

\* Update, part_004:199-236: the done message of the command at position i
\* of those in flight; listed is what loadInstalledVersions or
\* loadFPMStatuses finds
Done(i, listed) ==
    /\ tui # NoTui
    /\ i \in DOMAIN tui.inflight
    /\ LET left == [tui EXCEPT !.inflight =
                        SubSeq(@, 1, i - 1) \o SubSeq(@, i + 1, Len(@))]
       IN  TuiStep(CASE tui.inflight[i] \in {"install", "upgrade"} ->
                            [left EXCEPT !.step = "Done"]
                     [] tui.inflight[i] = "remove" ->
                            [left EXCEPT !.step = "Done", !.nInstalled = listed]
                     [] OTHER ->
                            [left EXCEPT !.nFpm = listed, !.step = "FPMMenu",
                                         !.cursor = 0])

InitTui ==
    /\ InitEngine
    /\ InitRun
    /\ InitRepo
    /\ available = <<>>
    /\ installed = Ledger({})
    /\ packages = <<>>
    /\ reqIdx = 1
    /\ pc = "loop"
    /\ allToInstall = <<>>
    /\ seenPackages = {}
    /\ installedSlots = {}
    /\ log = <<>>
    /\ pkg = Package(<<>>, <<>>, <<>>)
    /\ stack = <<>>
    /\ resolved = {}
    /\ result = <<>>
    /\ ret = NoReturn
    /\ checked = <<>>
    /\ others = <<>>
    /\ \E nInstalled, nFpm \in 0..MaxListed : tui = InitialTui(nInstalled, nFpm)

NextTui ==
    \/ KeyQuit
    \/ KeyEsc
    \/ KeyUp
    \/ KeyDown
    \/ KeySpace
    \/ \E listed \in 0..MaxListed, sudo \in BOOLEAN : KeyEnter(listed, sudo)
    \/ \E i \in 1..MaxCommands, listed \in 0..MaxListed : Done(i, listed)

SpecTui == InitTui /\ [][NextTui]_vars

\* a key is pressed: no done message is handled
KeyPressed == tui # NoTui /\ Len(tui'.inflight) >= Len(tui.inflight)

\* an install, an upgrade or a removal has not delivered its done message
OperationInFlight ==
    tui # NoTui /\ \E i \in DOMAIN tui.inflight : tui.inflight[i] \in Operations

\* C27: while an install, an upgrade or a removal started from the TUI has
\* not delivered its done message, the TUI does not quit on q or ctrl+c and
\* no key press changes the step, however the key presses interleave with
\* the pending messages, the done message of an earlier FPM action included
C27_NoKeyDuringOperation ==
    [][(OperationInFlight /\ KeyPressed) =>
           (~tui'.quit /\ tui'.step = tui.step)]_vars

\* C30: at most one background command (install, upgrade, removal or FPM
\* action) of the TUI is in flight at any time
C30_OneCommandInFlight == tui # NoTui => Len(tui.inflight) <= 1

====
